---------------------------- MODULE Spec2Model ----------------------------
(***************************************************************************)
(* A model of the BigInt support layer of Hermes                           *)
(* (lib/Support/BigIntSupport.cpp): canonicalization of two's-complement   *)
(* digit buffers, initWithBytes, compare, unaryMinus, unaryNot, add and    *)
(* subtract over caller-allocated destination buffers.                     *)
(*                                                                         *)
(* A BigInt digit is a fixed-width unsigned word.  The model keeps bytes   *)
(* at 8 bits and scales the digit to BigIntDigitSizeInBytes = 2 bytes, so  *)
(* that the byte view of a digit buffer and the rounding of a byte count   *)
(* up to whole digits both stay observable.  Digits are stored as naturals *)
(* below DigitBase; every digit operation wraps modulo DigitBase.          *)
(***************************************************************************)
EXTENDS Integers, Sequences, FiniteSets

VARIABLES pc, op, status, dst, numDigits, cap, prior, lhs, rhs, data, out,
          result, scalar, asserted, radix, str, input, ret, sign, outError,
          opPost, double, parser, frame, restores

vars == <<pc, op, status, dst, numDigits, cap, prior, lhs, rhs, data, out,
          result, scalar, asserted, radix, str, input, ret, sign, outError,
          opPost, double, parser, frame, restores>>

\* A run of the parser, step by step: the parser object, the locals of
\* goal() and the number of calls of restoreParserState so far.
runVars == <<parser, frame, restores>>

\* What the string conversions and the literal parser read and write.
stringVars == <<radix, str, input, ret, sign, outError, parser, frame,
                restores>>

\* What the operations on digit arrays read and write.
digitVars == <<status, dst, numDigits, cap, prior, lhs, rhs, data, out,
               result, scalar, asserted, opPost, double>>

(***************************************************************************)
(* Bounds of the model.                                                    *)
(***************************************************************************)
\* Largest digit count of an operand (lhs, rhs, src).
MaxDigits == 2
\* Largest length, in bytes, of a byte sequence handed to dropExtraSignBits
\* or to initWithBytes.
MaxBytes == 4
MaxInput == 4
MaxParsed == 2

\* Largest destination capacity tried: two digits beyond the widest operand,
\* which reaches the too-small, the exact and the oversized destinations.
MaxCap == MaxDigits + 2

(***************************************************************************)
(* The digit model.                                                        *)
(***************************************************************************)
BigIntDigitSizeInBytes == 2
BigIntDigitSizeInBits == BigIntDigitSizeInBytes * 8
ByteBase == 256
DigitBase == ByteBase ^ BigIntDigitSizeInBytes

\* Byte values the inputs are built from: zero, one, the largest positive
\* byte, the smallest negative byte, and all ones.
ByteVals == {0, 1, 127, 128, 255}
\* Digit values the operands are built from: zero, one, the largest positive
\* digit, the smallest negative digit, and all ones.
DigitVals == {0, 1, DigitBase \div 2 - 1, DigitBase \div 2, DigitBase - 1}
\* What every digit of a freshly allocated destination may hold before the
\* call: an arbitrary pattern, or all ones.
PriorVals == {DigitBase \div 3, DigitBase - 1}

Last(s) == s[Len(s)]
DropBack(s) == SubSeq(s, 1, Len(s) - 1)
Max(a, b) == IF a >= b THEN a ELSE b

\* The array a with digit i set to v.
Put(a, i, v) == SubSeq(a, 1, i - 1) \o <<v>> \o SubSeq(a, i + 1, Len(a))

SeqsUpTo(S, n) == UNION {[1..k -> S] : k \in 0..n}

\* getSignExtValue<uint8_t>: 0xFF when the sign bit of the byte is set, else 0.
getSignExtValueByte(value) == IF value >= ByteBase \div 2 THEN ByteBase - 1 ELSE 0
\* getSignExtValue<BigIntDigitType>.
getSignExtValueDigit(value) == IF value >= DigitBase \div 2 THEN DigitBase - 1 ELSE 0

numDigitsForSizeInBytes(v) ==
    (v + BigIntDigitSizeInBytes - 1) \div BigIntDigitSizeInBytes

\* The little-endian byte view of a digit buffer (reinterpret_cast<uint8_t *>).
RECURSIVE DigitBytes(_, _)
DigitBytes(d, k) ==
    IF k = 0 THEN <<>> ELSE <<d % ByteBase>> \o DigitBytes(d \div ByteBase, k - 1)
RECURSIVE BytesOf(_)
BytesOf(digits) ==
    IF digits = <<>> THEN <<>>
    ELSE DigitBytes(Head(digits), BigIntDigitSizeInBytes) \o BytesOf(Tail(digits))

\* The digit buffer a whole number of digits' worth of bytes is the view of.
RECURSIVE DigitOfBytes(_)
DigitOfBytes(bs) ==
    IF bs = <<>> THEN 0 ELSE Head(bs) + ByteBase * DigitOfBytes(Tail(bs))
RECURSIVE DigitsOf(_)
DigitsOf(bs) ==
    IF bs = <<>> THEN <<>>
    ELSE <<DigitOfBytes(SubSeq(bs, 1, BigIntDigitSizeInBytes))>>
         \o DigitsOf(SubSeq(bs, BigIntDigitSizeInBytes + 1, Len(bs)))

(***************************************************************************)
(* dropExtraSignBits                                                       *)
(***************************************************************************)
dropLoop_AtMostOne(src, previousSrc, drop) ==
    IF src # <<>> /\ Last(src) = drop
    THEN <<DropBack(src), src>>
    ELSE <<src, previousSrc>>

\* The loop of dropExtraSignBits: <<src, previousSrc>> when it exits.
RECURSIVE dropLoop(_, _, _)
dropLoop(src, previousSrc, drop) ==
    IF src # <<>> /\ Last(src) = drop
    THEN dropLoop(DropBack(src), src, drop)
    ELSE <<src, previousSrc>>

dropExtraSignBits_KeepsSrc(src) ==
    IF src = <<>> THEN src
    ELSE LET drop == getSignExtValueByte(Last(src))
             r == dropLoop(src, src, drop)
         IN  r[1]

dropExtraSignBits(src) ==
    IF src = <<>> THEN src
    ELSE LET drop == getSignExtValueByte(Last(src))
             r == dropLoop(src, src, drop)
             lastChar == IF r[1] = <<>> THEN 0 ELSE Last(r[1])
         IN  IF getSignExtValueByte(lastChar) = drop THEN r[1] ELSE r[2]

ensureCanonicalResult_KeepsSize(digits, n) == n

\* The digit count ensureCanonicalResult leaves in dst.numDigits, for a
\* buffer whose first n digits are in use.
ensureCanonicalResult(digits, n) ==
    LET compactView == dropExtraSignBits(BytesOf(SubSeq(digits, 1, n)))
    IN  numDigitsForSizeInBytes(Len(compactView))

(***************************************************************************)
(* initWithBytes                                                           *)
(***************************************************************************)
\* A sequence of n copies of v (memset).
Fill(v, n) == [i \in 1..n |-> v]

\* The buffer digits with its first Len(front) digits overwritten by front.
Overwrite(digits, front) ==
    [i \in 1..Len(digits) |-> IF i <= Len(front) THEN front[i] ELSE digits[i]]

initWithBytes_NoSignExtend(digits, n, bytes) ==
    LET dstSizeInBytes == n * BigIntDigitSizeInBytes
        dataSizeInBytes == Len(bytes)
    IN  IF dstSizeInBytes < dataSizeInBytes
        THEN [status |-> "DEST_TOO_SMALL", digits |-> digits, numDigits |-> 0]
        ELSE IF dataSizeInBytes = 0
        THEN [status |-> "RETURNED", digits |-> digits, numDigits |-> 0]
        ELSE LET numBytesToSet == dstSizeInBytes - dataSizeInBytes
                 filled == Overwrite(digits,
                               DigitsOf(bytes \o Fill(0, numBytesToSet)))
             IN  [status |-> "RETURNED", digits |-> filled,
                  numDigits |-> ensureCanonicalResult(filled, n)]

initWithBytes_OffByOne(digits, n, bytes) ==
    LET dstSizeInBytes == n * BigIntDigitSizeInBytes
        dataSizeInBytes == Len(bytes)
    IN  IF dstSizeInBytes <= dataSizeInBytes
        THEN [status |-> "DEST_TOO_SMALL", digits |-> digits, numDigits |-> 0]
        ELSE IF dataSizeInBytes = 0
        THEN [status |-> "RETURNED", digits |-> digits, numDigits |-> 0]
        ELSE LET numBytesToSet == dstSizeInBytes - dataSizeInBytes
                 signExtValue == getSignExtValueByte(bytes[dataSizeInBytes])
                 filled == Overwrite(digits,
                               DigitsOf(bytes \o Fill(signExtValue, numBytesToSet)))
             IN  [status |-> "RETURNED", digits |-> filled,
                  numDigits |-> ensureCanonicalResult(filled, n)]

\* initWithBytes(dst, data) for a destination buffer `digits` with
\* dst.numDigits = n on entry: the status, the buffer and dst.numDigits on
\* return.
initWithBytes(digits, n, bytes) ==
    LET dstSizeInBytes == n * BigIntDigitSizeInBytes
        dataSizeInBytes == Len(bytes)
    IN  IF dstSizeInBytes < dataSizeInBytes
        THEN [status |-> "DEST_TOO_SMALL", digits |-> digits, numDigits |-> 0]
        ELSE IF dataSizeInBytes = 0
        THEN [status |-> "RETURNED", digits |-> digits, numDigits |-> 0]
        ELSE LET numBytesToSet == dstSizeInBytes - dataSizeInBytes
                 signExtValue == getSignExtValueByte(bytes[dataSizeInBytes])
                 filled == Overwrite(digits,
                               DigitsOf(bytes \o Fill(signExtValue, numBytesToSet)))
             IN  [status |-> "RETURNED", digits |-> filled,
                  numDigits |-> ensureCanonicalResult(filled, n)]

isNegative(src) ==
    Len(src) > 0 /\ Last(src) >= DigitBase \div 2

(***************************************************************************)
(* compare                                                                 *)
(***************************************************************************)
\* APInt::tcCompare: unsigned comparison of two digit arrays of `parts`
\* digits, from the most significant digit down.
RECURSIVE tcCompare(_, _, _)
tcCompare(a, b, parts) ==
    IF parts = 0 THEN 0
    ELSE IF a[parts] # b[parts] THEN (IF a[parts] > b[parts] THEN 1 ELSE -1)
    ELSE tcCompare(a, b, parts - 1)

compare_MoreDigitsGreater(l, r) ==
    LET kLhsGreater == 1
        kRhsGreater == -kLhsGreater
        lhsSign == isNegative(l)
        rhsSign == isNegative(r)
    IN  IF lhsSign # rhsSign
        THEN (IF lhsSign THEN kRhsGreater ELSE kLhsGreater)
        ELSE IF Len(l) = Len(r) THEN tcCompare(l, r, Len(l))
        ELSE IF Len(l) < Len(r) THEN kRhsGreater ELSE kLhsGreater

compare_SignDecidesForRhs(l, r) ==
    LET kLhsGreater == 1
        kRhsGreater == -kLhsGreater
        lhsSign == isNegative(l)
        rhsSign == isNegative(r)
    IN  IF lhsSign # rhsSign
        THEN kRhsGreater
        ELSE IF Len(l) = Len(r) THEN tcCompare(l, r, Len(l))
        ELSE IF lhsSign
        THEN (IF Len(l) < Len(r) THEN kLhsGreater ELSE kRhsGreater)
        ELSE (IF Len(l) < Len(r) THEN kRhsGreater ELSE kLhsGreater)

compare(l, r) ==
    LET kLhsGreater == 1
        kRhsGreater == -kLhsGreater
        lhsSign == isNegative(l)
        rhsSign == isNegative(r)
    IN  IF lhsSign # rhsSign
        THEN (IF lhsSign THEN kRhsGreater ELSE kLhsGreater)
        ELSE IF Len(l) = Len(r) THEN tcCompare(l, r, Len(l))
        ELSE IF lhsSign
        THEN (IF Len(l) < Len(r) THEN kLhsGreater ELSE kRhsGreater)
        ELSE (IF Len(l) < Len(r) THEN kRhsGreater ELSE kLhsGreater)

\* compare(ImmutableBigIntRef, SignedBigIntDigitType): s is the scalar's
\* two's-complement digit.
compareScalar(l, s) ==
    LET digits == <<s>>
        n == ensureCanonicalResult(digits, 1)
    IN  compare(l, SubSeq(digits, 1, n))

(***************************************************************************)
(* The digit-array primitives of APInt the operations are built on.  Each  *)
(* works in place on the first `parts` digits of an array; the model       *)
(* returns the array and, where there is one, the carry or borrow out.     *)
(***************************************************************************)
\* APInt::tcAdd: a += b + c over `parts` digits, starting at digit i.
RECURSIVE tcAddFrom(_, _, _, _, _)
tcAddFrom(a, b, c, parts, i) ==
    IF i > parts THEN [digits |-> a, carry |-> c]
    ELSE LET s == a[i] + b[i] + c
         IN  tcAddFrom(Put(a, i, s % DigitBase), b, s \div DigitBase,
                       parts, i + 1)
tcAdd(a, b, c, parts) == tcAddFrom(a, b, c, parts, 1)

\* APInt::tcSubtract: a -= b + c over `parts` digits, starting at digit i.
RECURSIVE tcSubtractFrom(_, _, _, _, _)
tcSubtractFrom(a, b, c, parts, i) ==
    IF i > parts THEN [digits |-> a, carry |-> c]
    ELSE LET d == a[i] - b[i] - c
         IN  tcSubtractFrom(Put(a, i, d % DigitBase), b,
                            IF d < 0 THEN 1 ELSE 0, parts, i + 1)
tcSubtract(a, b, c, parts) == tcSubtractFrom(a, b, c, parts, 1)

\* APInt::tcAddPart: adds the single digit src to the `parts` digits of a
\* that start at digit `first`, carrying upwards.
RECURSIVE tcAddPart(_, _, _, _)
tcAddPart(a, src, first, parts) ==
    IF parts = 0 THEN a
    ELSE LET s == (a[first] + src) % DigitBase
             next == Put(a, first, s)
         IN  IF s >= src THEN next ELSE tcAddPart(next, 1, first + 1, parts - 1)

\* APInt::tcSubtractPart: subtracts the single digit src from the `parts`
\* digits of a that start at digit `first`, borrowing upwards.
RECURSIVE tcSubtractPart(_, _, _, _)
tcSubtractPart(a, src, first, parts) ==
    IF parts = 0 THEN a
    ELSE LET d == (a[first] - src) % DigitBase
             next == Put(a, first, d)
         IN  IF src <= a[first] THEN next
             ELSE tcSubtractPart(next, 1, first + 1, parts - 1)

\* APInt::tcComplement over the first `parts` digits.
tcComplement(a, parts) ==
    [i \in 1..Len(a) |-> IF i <= parts THEN DigitBase - 1 - a[i] ELSE a[i]]

\* APInt::tcNegate over the first `parts` digits: complement, then increment.
tcNegate(a, parts) == tcAddPart(tcComplement(a, parts), 1, 1, parts)

(***************************************************************************)
(* unaryMinus, unaryNot                                                    *)
(***************************************************************************)
getBigIntRefSignExtValue(src) ==
    IF Len(src) = 0 THEN 0 ELSE getSignExtValueDigit(Last(src))

initNonCanonicalWithReadOnlyBigInt_ZeroExtends(digits, n, src) ==
    IF n < Len(src)
    THEN [status |-> "DEST_TOO_SMALL", digits |-> digits]
    ELSE [status |-> "RETURNED",
          digits |-> Overwrite(digits, src \o Fill(0, n - Len(src)))]

\* initNonCanonicalWithReadOnlyBigInt(dst, src) with dst.numDigits = n: the
\* status and the buffer; dst.numDigits is left as it is on both paths.
initNonCanonicalWithReadOnlyBigInt(digits, n, src) ==
    IF n < Len(src)
    THEN [status |-> "DEST_TOO_SMALL", digits |-> digits]
    ELSE LET digitsToCopy == Len(src)
             digitsToSet == n - digitsToCopy
             bytesToSet == digitsToSet * BigIntDigitSizeInBytes
             signExtValue == getBigIntRefSignExtValue(src)
             \* memset stores the low byte of its value argument.
             set == DigitsOf(Fill(signExtValue % ByteBase, bytesToSet))
         IN  [status |-> "RETURNED", digits |-> Overwrite(digits, src \o set)]


unaryMinus_ComplementOnly(digits, n, src) ==
    LET res == initNonCanonicalWithReadOnlyBigInt(digits, n, src)
    IN  IF res.status # "RETURNED"
        THEN [status |-> res.status, digits |-> res.digits, numDigits |-> n,
              asserted |-> TRUE]
        ELSE LET negated == tcComplement(res.digits, n)
             IN  [status |-> "RETURNED", digits |-> negated,
                  numDigits |-> ensureCanonicalResult(negated, n),
                  asserted |-> TRUE]

unaryMinus_NoCanonicalize(digits, n, src) ==
    LET res == initNonCanonicalWithReadOnlyBigInt(digits, n, src)
    IN  IF res.status # "RETURNED"
        THEN [status |-> res.status, digits |-> res.digits, numDigits |-> n,
              asserted |-> TRUE]
        ELSE [status |-> "RETURNED", digits |-> tcNegate(res.digits, n),
              numDigits |-> n, asserted |-> TRUE]

unaryMinusResultSize(src) ==
    IF ~isNegative(src) THEN Len(src) ELSE Len(src) + 1

\* unaryMinus(dst, src) with dst.numDigits = n.  `asserted` is the value of
\* the condition of the "unaryMinus overflow" assertion.
unaryMinus(digits, n, src) ==
    LET res == initNonCanonicalWithReadOnlyBigInt(digits, n, src)
    IN  IF res.status # "RETURNED"
        THEN [status |-> res.status, digits |-> res.digits, numDigits |-> n,
              asserted |-> TRUE]
        ELSE LET negated == tcNegate(res.digits, n)
                 m == ensureCanonicalResult(negated, n)
             IN  [status |-> "RETURNED", digits |-> negated, numDigits |-> m,
                  asserted |-> \/ isNegative(SubSeq(negated, 1, m)) # isNegative(src)
                               \/ compareScalar(src, 0) = 0]


unaryNot_Negates(digits, n, src) ==
    LET res == initNonCanonicalWithReadOnlyBigInt(digits, n, src)
    IN  IF res.status # "RETURNED"
        THEN [status |-> res.status, digits |-> res.digits, numDigits |-> n]
        ELSE LET flipped == tcNegate(res.digits, n)
             IN  [status |-> "RETURNED", digits |-> flipped,
                  numDigits |-> ensureCanonicalResult(flipped, n)]

unaryNotResultSize(src) == Max(1, Len(src))

unaryNot(digits, n, src) ==
    LET res == initNonCanonicalWithReadOnlyBigInt(digits, n, src)
    IN  IF res.status # "RETURNED"
        THEN [status |-> res.status, digits |-> res.digits, numDigits |-> n]
        ELSE LET flipped == tcComplement(res.digits, n)
             IN  [status |-> "RETURNED", digits |-> flipped,
                  numDigits |-> ensureCanonicalResult(flipped, n)]

(***************************************************************************)
(* add, subtract                                                           *)
(***************************************************************************)
\* The AdditiveOp, AdditiveOpPart and AdditiveOpPostProcess function pointers
\* are passed by name.
ApplyOp(fn, a, b, c, parts) ==
    IF fn = "tcAdd" THEN tcAdd(a, b, c, parts) ELSE tcSubtract(a, b, c, parts)

ApplyOpPart(fn, a, src, first, parts) ==
    IF fn = "tcAddPart" THEN tcAddPart(a, src, first, parts)
    ELSE tcSubtractPart(a, src, first, parts)

noopAdditiveOpPostProcess(digits, n) == digits

negateAdditiveOpPostProcess(digits, n) == tcNegate(digits, n)

ApplyOpPost(fn, digits, n) ==
    IF fn = "negateAdditiveOpPostProcess"
    THEN negateAdditiveOpPostProcess(digits, n)
    ELSE noopAdditiveOpPostProcess(digits, n)

additiveOperation_DropsSignExt(fn, fnPart, fnPost, digits, n, l, r) ==
    IF n < Len(r)
    THEN [status |-> "DEST_TOO_SMALL", digits |-> digits, numDigits |-> n]
    ELSE LET m == IF Len(r) + 1 < n THEN Len(r) + 1 ELSE n
             res == initNonCanonicalWithReadOnlyBigInt(digits, m, l)
             step == ApplyOp(fn, res.digits, r, 0, Len(r))
             part == ApplyOpPart(fnPart, step.digits, step.carry,
                                 Len(r) + 1, m - Len(r))
             post == ApplyOpPost(fnPost, part, m)
         IN  [status |-> "RETURNED", digits |-> post,
              numDigits |-> ensureCanonicalResult(post, m)]


additiveOperation_StrictCap(fn, fnPart, fnPost, digits, n, l, r) ==
    IF n <= Len(r)
    THEN [status |-> "DEST_TOO_SMALL", digits |-> digits, numDigits |-> n]
    ELSE LET m == IF Len(r) + 1 < n THEN Len(r) + 1 ELSE n
             res == initNonCanonicalWithReadOnlyBigInt(digits, m, l)
             step == ApplyOp(fn, res.digits, r, 0, Len(r))
             part == ApplyOpPart(fnPart, step.digits,
                         (step.carry + getBigIntRefSignExtValue(r)) % DigitBase,
                         Len(r) + 1, m - Len(r))
             post == ApplyOpPost(fnPost, part, m)
         IN  [status |-> "RETURNED", digits |-> post,
              numDigits |-> ensureCanonicalResult(post, m)]

additiveOperation_NoClamp(fn, fnPart, fnPost, digits, n, l, r) ==
    IF n < Len(r)
    THEN [status |-> "DEST_TOO_SMALL", digits |-> digits, numDigits |-> n]
    ELSE LET m == n
             res == initNonCanonicalWithReadOnlyBigInt(digits, m, l)
             step == ApplyOp(fn, res.digits, r, 0, Len(r))
             part == ApplyOpPart(fnPart, step.digits,
                         (step.carry + getBigIntRefSignExtValue(r)) % DigitBase,
                         Len(r) + 1, m - Len(r))
             post == ApplyOpPost(fnPost, part, m)
         IN  [status |-> "RETURNED", digits |-> post,
              numDigits |-> ensureCanonicalResult(post, m)]

\* additiveOperation(op, opPart, opPost, dst, lhs, rhs) with
\* dst.numDigits = n; l has at most as many digits as r.
additiveOperation(fn, fnPart, fnPost, digits, n, l, r) ==
    IF n < Len(r)
    THEN [status |-> "DEST_TOO_SMALL", digits |-> digits, numDigits |-> n,
          opPost |-> fnPost]
    ELSE LET m == IF Len(r) + 1 < n THEN Len(r) + 1 ELSE n
             res == initNonCanonicalWithReadOnlyBigInt(digits, m, l)
         IN  IF res.status # "RETURNED"
             THEN [status |-> res.status, digits |-> res.digits,
                   numDigits |-> m, opPost |-> fnPost]
             ELSE LET step == ApplyOp(fn, res.digits, r, 0, Len(r))
                      \* carryOut + sign extension, in BigIntDigitType.
                      part == ApplyOpPart(fnPart, step.digits,
                                  (step.carry + getBigIntRefSignExtValue(r))
                                      % DigitBase,
                                  Len(r) + 1, m - Len(r))
                      post == ApplyOpPost(fnPost, part, m)
                  IN  [status |-> "RETURNED", digits |-> post,
                       numDigits |-> ensureCanonicalResult(post, m),
                       opPost |-> fnPost]

addResultSize(l, r) == Max(Len(l), Len(r)) + 1


add_NoSwap(digits, n, l, r) ==
    additiveOperation("tcAdd", "tcAddPart", "noopAdditiveOpPostProcess",
                      digits, n, l, r)

add(digits, n, l, r) ==
    IF Len(l) <= Len(r)
    THEN additiveOperation("tcAdd", "tcAddPart", "noopAdditiveOpPostProcess",
                           digits, n, l, r)
    ELSE additiveOperation("tcAdd", "tcAddPart", "noopAdditiveOpPostProcess",
                           digits, n, r, l)

subtractResultSize(l, r) == Max(Len(l), Len(r)) + 1

subtract_SwapsWhenRhsLonger(digits, n, l, r) ==
    IF Len(r) <= Len(l)
    THEN additiveOperation("tcSubtract", "tcSubtractPart",
                           "noopAdditiveOpPostProcess", digits, n, l, r)
    ELSE additiveOperation("tcSubtract", "tcSubtractPart",
                           "negateAdditiveOpPostProcess", digits, n, r, l)

subtract_NeverNegates(digits, n, l, r) ==
    IF Len(l) <= Len(r)
    THEN additiveOperation("tcSubtract", "tcSubtractPart",
                           "noopAdditiveOpPostProcess", digits, n, l, r)
    ELSE additiveOperation("tcSubtract", "tcSubtractPart",
                           "noopAdditiveOpPostProcess", digits, n, r, l)

subtract(digits, n, l, r) ==
    IF Len(l) <= Len(r)
    THEN additiveOperation("tcSubtract", "tcSubtractPart",
                           "noopAdditiveOpPostProcess", digits, n, l, r)
    ELSE additiveOperation("tcSubtract", "tcSubtractPart",
                           "negateAdditiveOpPostProcess", digits, n, r, l)


(***************************************************************************)
(* toString.  A string is a sequence of characters, a character a string   *)
(* of length one.  '0' + n and 'a' + n are positions in the runs of        *)
(* consecutive character codes.                                            *)
(***************************************************************************)
DecimalChars == <<"0", "1", "2", "3", "4", "5", "6", "7", "8", "9">>
LowerChars == <<"a", "b", "c", "d", "e", "f", "g", "h", "i", "j", "k", "l", "m",
                "n", "o", "p", "q", "r", "s", "t", "u", "v", "w", "x", "y", "z">>
UpperChars == <<"A", "B", "C", "D", "E", "F", "G", "H", "I", "J", "K", "L", "M",
                "N", "O", "P", "Q", "R", "S", "T", "U", "V", "W", "X", "Y", "Z">>

Range(s) == {s[i] : i \in 1..Len(s)}
IndexOf(s, c) == CHOOSE i \in 1..Len(s) : s[i] = c
Reverse(s) == [i \in 1..Len(s) |-> s[Len(s) + 1 - i]]

\* APInt::udivrem(LHS, uint64_t RHS, Quotient, Remainder): schoolbook
\* division of the digits of a by a divisor of less than one digit, from the
\* most significant digit (i) down, rem being what the digits above left.
RECURSIVE udivremFrom(_, _, _, _)
udivremFrom(a, i, rem, divisor) ==
    IF i = 0 THEN [quoc |-> a, rem |-> rem]
    ELSE LET t == rem * DigitBase + a[i]
         IN  udivremFrom(Put(a, i, t \div divisor), i - 1, t % divisor, divisor)

udivrem(a, divisor) == udivremFrom(a, Len(a), 0, divisor)

\* APInt != 0
apIsZero(a) == \A i \in 1..Len(a) : a[i] = 0

\* The do/while loop of toString: one character per division, least
\* significant first.
RECURSIVE toStringLoop(_, _, _)
toStringLoop(tmp, rdx, digits) ==
    LET qr == udivrem(tmp, rdx)
        pushed == Append(digits,
                         IF qr.rem < 10 THEN DecimalChars[1 + qr.rem]
                         ELSE LowerChars[1 + qr.rem - 10])
    IN  IF apIsZero(qr.quoc) THEN pushed
        ELSE toStringLoop(qr.quoc, rdx, pushed)

toString_NoNegate(src, rdx) ==
    IF compareScalar(src, 0) = 0 THEN <<"0">>
    ELSE LET digits == toStringLoop(src, rdx, <<>>)
         IN  Reverse(IF isNegative(src) THEN Append(digits, "-") ELSE digits)

\* toString(src, radix)
toString(src, rdx) ==
    IF compareScalar(src, 0) = 0 THEN <<"0">>
    ELSE LET isNeg == isNegative(src)
             tmp == IF isNeg THEN tcNegate(src, Len(src)) ELSE src
             digits == toStringLoop(tmp, rdx, <<>>)
         IN  Reverse(IF isNeg THEN Append(digits, "-") ELSE digits)


(***************************************************************************)
(* APInt(numBits, str, radix)                                              *)
(***************************************************************************)
\* getDigit(cdigit, radix) of APInt: the value of a digit character, or
\* radix for a character that is no digit of the radix.
getDigit(c, rdx) ==
    LET v == IF c \in Range(DecimalChars) THEN IndexOf(DecimalChars, c) - 1
             ELSE IF c \in Range(LowerChars) THEN IndexOf(LowerChars, c) + 9
             ELSE IF c \in Range(UpperChars) THEN IndexOf(UpperChars, c) + 9
             ELSE rdx
    IN  IF v < rdx THEN v ELSE rdx

\* *this *= radix; *this += digit, at the width of a: product and sum wrap.
RECURSIVE apMultiplyAdd(_, _, _, _)
apMultiplyAdd(a, i, mult, carry) ==
    IF i > Len(a) THEN a
    ELSE LET t == a[i] * mult + carry
         IN  apMultiplyAdd(Put(a, i, t % DigitBase), i + 1, mult,
                           t \div DigitBase)

RECURSIVE fromStringFrom(_, _, _, _)
fromStringFrom(a, chars, i, rdx) ==
    IF i > Len(chars) THEN a
    ELSE fromStringFrom(apMultiplyAdd(a, 1, rdx, getDigit(chars[i], rdx)),
                        chars, i + 1, rdx)

\* APInt::fromString for an unsigned digit string, into `parts` digits.
fromString(parts, chars, rdx) == fromStringFrom(Fill(0, parts), chars, 1, rdx)


(***************************************************************************)
(* The literal parser.  The parser object is a record: the input str, the  *)
(* cursor it and the end (positions 1 .. Len(str) + 1), and the caller's   *)
(* radix, bigintDigits, sign and outError behind its references.  outError *)
(* is <<>> for a null pointer and <<s>> for a pointer to the string s.  An *)
(* OptValue<CharT> is <<>> or <<c>>.  A member function that returns a     *)
(* value gives the record [p, ret].  Characters that cannot be written as  *)
(* themselves have names: NUL, TAB, SP, LF, ...                            *)
(***************************************************************************)
\* The char16_t code unit of a character.  The characters that are not
\* letters or digits are written as tokens, each with its code unit.
CharCodes ==
    {[c |-> "NUL", u |-> 0], [c |-> "BS", u |-> 8], [c |-> "TAB", u |-> 9],
     [c |-> "LF", u |-> 10], [c |-> "VT", u |-> 11], [c |-> "FF", u |-> 12],
     [c |-> "CR", u |-> 13], [c |-> "US", u |-> 31], [c |-> "SP", u |-> 32],
     [c |-> "!", u |-> 33], [c |-> "+", u |-> 43], [c |-> "-", u |-> 45],
     [c |-> "NEL", u |-> 133], [c |-> "NBSP", u |-> 160],
     [c |-> "U+00A1", u |-> 161], [c |-> "U+1680", u |-> 5760],
     [c |-> "U+1681", u |-> 5761], [c |-> "U+180E", u |-> 6158],
     [c |-> "U+1FFF", u |-> 8191], [c |-> "U+2000", u |-> 8192],
     [c |-> "U+2001", u |-> 8193], [c |-> "U+2002", u |-> 8194],
     [c |-> "U+2003", u |-> 8195], [c |-> "U+2004", u |-> 8196],
     [c |-> "U+2005", u |-> 8197], [c |-> "U+2006", u |-> 8198],
     [c |-> "U+2007", u |-> 8199], [c |-> "U+2008", u |-> 8200],
     [c |-> "U+2009", u |-> 8201], [c |-> "U+200A", u |-> 8202],
     [c |-> "U+200B", u |-> 8203], [c |-> "U+2028", u |-> 8232],
     [c |-> "U+2029", u |-> 8233], [c |-> "U+202F", u |-> 8239],
     [c |-> "U+2030", u |-> 8240], [c |-> "U+205F", u |-> 8287],
     [c |-> "U+2060", u |-> 8288], [c |-> "U+3000", u |-> 12288],
     [c |-> "U+3001", u |-> 12289], [c |-> "BOM", u |-> 65279],
     [c |-> "U+FFFE", u |-> 65534]}

CodeOf(c) ==
    IF c \in Range(DecimalChars) THEN 48 + IndexOf(DecimalChars, c) - 1
    ELSE IF c \in Range(UpperChars) THEN 65 + IndexOf(UpperChars, c) - 1
    ELSE IF c \in Range(LowerChars) THEN 97 + IndexOf(LowerChars, c) - 1
    ELSE (CHOOSE e \in CharCodes : e.c = c).u

\* isWhiteSpaceChar, given the code unit u of the character.
isWhiteSpaceCode(u) ==
    \/ u = 9 \/ u = 11 \/ u = 12 \/ u = 32
    \/ u = 160 \/ u = 65279 \/ u = 5760
    \/ (u >= 8192 /\ u <= 8202) \/ u = 8239 \/ u = 8287
    \/ u = 12288

isWhiteSpaceChar_TrimsLineTerminators(c) ==
    isWhiteSpaceCode(CodeOf(c)) \/ CodeOf(c) \in {10, 13, 8232, 8233}

isWhiteSpaceChar(c) == isWhiteSpaceCode(CodeOf(c))

BIGINT_BINARY_DIGITS == {"0", "1"}
BIGINT_OCTAL_DIGITS == {"0", "1", "2", "3", "4", "5", "6", "7"}
BIGINT_DEC_DIGITS == Range(DecimalChars)
BIGINT_HEX_DIGITS ==
    Range(DecimalChars) \cup {"A", "B", "C", "D", "E", "F"}
                        \cup {"a", "b", "c", "d", "e", "f"}

BigIntLiteralParsingToolBox(s, rdx, err) ==
    [str |-> s, it |-> 1, end |-> Len(s) + 1, radix |-> rdx,
     bigintDigits |-> <<>>, sign |-> "None", outError |-> err]

peek(p, which) ==
    IF p.it + which < p.end THEN <<p.str[p.it + which]>> ELSE <<>>

eat(p) == IF peek(p, 0) # <<>> THEN [p EXCEPT !.it = p.it + 1] ELSE p

\* nextIsAnyOf, given the character ch it peeked.
nextIsAnyOf_ch(ch, chars) ==
    IF ch # <<>> /\ ch[1] \in chars THEN ch ELSE <<>>

nextIsAnyOf(p, chars) == nextIsAnyOf_ch(peek(p, 0), chars)

\* lookaheadAndEatIfAnyOf, given the result ch of its nextIsAnyOf.
lookaheadAndEatIfAnyOf_ch(p, ch) ==
    IF ch # <<>> THEN [p |-> eat(p), ret |-> ch] ELSE [p |-> p, ret |-> <<>>]

lookaheadAndEatIfAnyOf(p, chars) ==
    lookaheadAndEatIfAnyOf_ch(p, nextIsAnyOf(p, chars))

\* bigintDigits_.push_back(*ch)
pushDigit(p, c) == [p EXCEPT !.bigintDigits = Append(p.bigintDigits, c)]

RECURSIVE buildBigIntWithDigits(_, _)
\* The loop of buildBigIntWithDigits, given the result la of its lookahead.
buildBigIntWithDigits_la(la, digits) ==
    IF la.ret = <<>> THEN la.p
    ELSE buildBigIntWithDigits(pushDigit(la.p, la.ret[1]), digits)

buildBigIntWithDigits(p, digits) ==
    buildBigIntWithDigits_la(lookaheadAndEatIfAnyOf(p, digits), digits)

\* return bigintDigits_.size() > 0
hasDigits(p) == [p |-> p, ret |-> Len(p.bigintDigits) > 0]

setRadix(p, rdx) == [p EXCEPT !.radix = rdx]

\* The body the three prefixed literals share, given the result la of the
\* lookahead for the prefix: set the radix, collect the digits.
prefixedLiteral_la(la, rdx, digits) ==
    IF la.ret # <<>>
    THEN hasDigits(buildBigIntWithDigits(setRadix(la.p, rdx), digits))
    ELSE [p |-> la.p, ret |-> FALSE]

prefixedLiteral(p, prefix, rdx, digits) ==
    prefixedLiteral_la(lookaheadAndEatIfAnyOf(p, prefix), rdx, digits)

binaryIntegerLiteral(p) == prefixedLiteral(p, {"B", "b"}, 2, BIGINT_BINARY_DIGITS)
octalIntegerLiteral(p) == prefixedLiteral(p, {"O", "o"}, 8, BIGINT_OCTAL_DIGITS)
hexIntegerLiteral(p) == prefixedLiteral(p, {"X", "x"}, 16, BIGINT_HEX_DIGITS)

\* b || octalIntegerLiteral(), o || hexIntegerLiteral(): the next literal
\* starts where the one before it stopped.
orOctalIntegerLiteral(b) == IF b.ret THEN b ELSE octalIntegerLiteral(b.p)
orHexIntegerLiteral(o) == IF o.ret THEN o ELSE hexIntegerLiteral(o.p)

nonDecimalIntegerLiteral(p) ==
    orHexIntegerLiteral(orOctalIntegerLiteral(binaryIntegerLiteral(p)))

\* The loop of decimalDigits: eat every '0' that has a character after it.
RECURSIVE trimLeadingZeroes(_)
trimLeadingZeroes(p) ==
    IF peek(p, 0) = <<"0">> /\ peek(p, 1) # <<>>
    THEN trimLeadingZeroes(eat(p))
    ELSE p

\* decimalDigits after its loop.
decimalDigits_run(p) ==
    IF nextIsAnyOf(p, BIGINT_DEC_DIGITS) # <<>>
    THEN hasDigits(buildBigIntWithDigits(setRadix(p, 10), BIGINT_DEC_DIGITS))
    ELSE [p |-> p, ret |-> FALSE]

decimalDigits_KeepsZeroes(p) == decimalDigits_run(p)

decimalDigits(p) == decimalDigits_run(trimLeadingZeroes(p))

fail_Silent(p, err) == [p |-> p, ret |-> FALSE]

fail(p, err) ==
    [p |-> IF p.outError # <<>> THEN [p EXCEPT !.outError = <<err>>] ELSE p,
     ret |-> FALSE]

\* checkEnd, given the character ch it peeked.
checkEnd_ch(p, ch, err) ==
    IF ch # <<>> /\ ch[1] # "NUL" THEN fail(p, err)
    ELSE [p |-> p, ret |-> TRUE]

checkEnd(p, err) == checkEnd_ch(p, peek(p, 0), err)

\* The constructor: one trailing NUL goes, then the white space at both ends.
dropTrailingNul(p) ==
    IF p.it < p.end /\ p.str[p.end - 1] = "NUL"
    THEN [p EXCEPT !.end = p.end - 1] ELSE p

RECURSIVE skipLeadingWhiteSpace(_)
skipLeadingWhiteSpace(p) ==
    IF p.it < p.end /\ isWhiteSpaceChar(p.str[p.it])
    THEN skipLeadingWhiteSpace([p EXCEPT !.it = p.it + 1])
    ELSE p

RECURSIVE skipTrailingWhiteSpace(_)
skipTrailingWhiteSpace(p) ==
    IF p.it < p.end /\ isWhiteSpaceChar(p.str[p.end - 1])
    THEN skipTrailingWhiteSpace([p EXCEPT !.end = p.end - 1])
    ELSE p

StringIntegerLiteralParser(s, rdx, err) ==
    skipTrailingWhiteSpace(skipLeadingWhiteSpace(dropTrailingNul(
        BigIntLiteralParsingToolBox(s, rdx, err))))

goal_sign_AlwaysPlus(signCh, ch) ==
    IF signCh.ret # <<>> THEN [signCh.p EXCEPT !.sign = "Plus"]
    ELSE signCh.p

\* goal(), lines 487-489: the sign, given the result signCh of the lookahead
\* for it and the first character ch of the literal.
goal_sign(signCh, ch) ==
    IF signCh.ret # <<>>
    THEN [signCh.p EXCEPT !.sign = IF ch[1] = "+" THEN "Plus" ELSE "Minus"]
    ELSE signCh.p

\* goal(), lines 492-497, given the result d of decimalDigits.
goal_digits(d) ==
    IF d.ret THEN checkEnd(d.p, "trailing data in decimal literal")
    ELSE fail(d.p, "invalid bigint literal")

\* goal(), lines 487-497.
goal_decimal(p, ch) ==
    goal_digits(decimalDigits(
        goal_sign(lookaheadAndEatIfAnyOf(p, {"+", "-"}), ch)))

\* restoreParserState: the cursor goes back to the saved state.
restoreParserState_PastState(p, state) == [p EXCEPT !.it = state + 1]

restoreParserState(p, state) == [p EXCEPT !.it = state]

\* goal(), lines 478-495, given the result nd of nonDecimalIntegerLiteral
\* and the saved parser state atZero.
goal_nonDecimal(nd, atZero, ch) ==
    IF nd.ret THEN checkEnd(nd.p, "trailing data in non-decimal literal")
    ELSE goal_decimal(restoreParserState(nd.p, atZero), ch)

\* goal(), given the character ch it peeked.
goal_ch(p, ch) ==
    IF ch = <<>>
    THEN [p |-> [p EXCEPT !.radix = 10, !.bigintDigits = <<"0">>],
          ret |-> TRUE]
    ELSE IF ch[1] = "0"
    THEN goal_nonDecimal(nonDecimalIntegerLiteral(eat(p)), p.it, ch)
    ELSE goal_decimal(p, ch)

goal(p) == goal_ch(p, peek(p, 0))

\* getDigitsWith, given the result g of goal(): the optional digit string,
\* and what the call left behind the caller's references.
getDigitsWith_goal(g) ==
    [ret |-> IF g.ret THEN <<g.p.bigintDigits>> ELSE <<>>,
     radix |-> g.p.radix, sign |-> g.p.sign, outError |-> g.p.outError]

getDigitsWith(src, rdx, err) ==
    getDigitsWith_goal(goal(StringIntegerLiteralParser(src, rdx, err)))

getStringIntegerLiteralDigitsAndSign(src, rdx, err) ==
    getDigitsWith(src, rdx, err)

(***************************************************************************)
(* parsedBigIntFrom                                                        *)
(***************************************************************************)
\* llvh::findFirstSet: the index of the lowest set bit.
findFirstSet(v) == CHOOSE k \in 0..7 : v % (2 ^ (k + 1)) = 2 ^ k

numDigitsForSizeInBits(v) ==
    (v + BigIntDigitSizeInBits - 1) \div BigIntDigitSizeInBits

numBitsForBigintDigits_ThreeBitsPerChar(s, rdx) ==
    numDigitsForSizeInBits(3 * Len(s) + 1) * BigIntDigitSizeInBits

numBitsForBigintDigits(s, rdx) ==
    LET maxBitsPerChar == IF rdx = 10 THEN 4 ELSE findFirstSet(rdx)
    IN  numDigitsForSizeInBits(maxBitsPerChar * Len(s) + 1)
            * BigIntDigitSizeInBits

\* parsedBigIntFrom, lines 573-580, given the digits-and-sign d and the
\* APInt i made of them.
parsedBigIntFrom_bytes(d, i) ==
    [ret |-> <<BytesOf(IF d.sign = "Minus" THEN tcNegate(i, Len(i)) ELSE i)>>,
     outError |-> d.outError]

\* parsedBigIntFrom, given the result d of getDigitsWith.
parsedBigIntFrom_digits(d) ==
    IF d.ret = <<>> THEN [ret |-> <<>>, outError |-> d.outError]
    ELSE parsedBigIntFrom_bytes(d,
             fromString(numBitsForBigintDigits(d.ret[1], d.radix)
                            \div BigIntDigitSizeInBits,
                        d.ret[1], d.radix))

\* parsedBigIntFrom<StringIntegerLiteralParser>: the optional byte vector
\* (<<>> or <<bytes>>) and the error sink.
parsedBigIntFrom(src, err) == parsedBigIntFrom_digits(getDigitsWith(src, 0, err))

(***************************************************************************)
(* fromDouble.  A double is its sign bit, its biased exponent of 11 bits   *)
(* and its 52 fraction bits; the fraction is held as digits, least         *)
(* significant first, the last digit with the bits that are left.          *)
(***************************************************************************)
FractionBits == 52
ExponentBias == 1023
FractionDigits == FractionBits \div BigIntDigitSizeInBits + 1
HiddenBit == 2 ^ (FractionBits % BigIntDigitSizeInBits)

\* llvh::alignTo(value, align)
alignTo(value, align) == ((value + align - 1) \div align) * align

\* Digit i of a, zero beyond its ends.
At(a, i) == IF i >= 1 /\ i <= Len(a) THEN a[i] ELSE 0

\* APInt(width, value): a zero-extended to parts digits.
zext(a, parts) == SubSeq([i \in 1..parts |-> At(a, i)], 1, parts)

\* APInt::lshr and APInt::shl by q digits and r bits.
lshrBy(a, q, r) ==
    SubSeq([i \in 1..Len(a) |->
               At(a, i + q) \div (2 ^ r)
                   + (At(a, i + q + 1) % (2 ^ r))
                         * 2 ^ (BigIntDigitSizeInBits - r)],
           1, Len(a))

lshr(a, k) ==
    lshrBy(a, k \div BigIntDigitSizeInBits, k % BigIntDigitSizeInBits)

shlBy(a, q, r) ==
    SubSeq([i \in 1..Len(a) |->
               (At(a, i - q) % (2 ^ (BigIntDigitSizeInBits - r))) * 2 ^ r
                   + At(a, i - q - 1) \div (2 ^ (BigIntDigitSizeInBits - r))],
           1, Len(a))

shl(a, k) ==
    shlBy(a, k \div BigIntDigitSizeInBits, k % BigIntDigitSizeInBits)

\* (I & (~0ULL >> 12)) | 1ULL << 52: the fraction with the hidden bit.
Mantissa(d) ==
    Put(d.frac, FractionDigits, d.frac[FractionDigits] + HiddenBit)

\* llvh::APIntOps::RoundDoubleToAPInt, for the unbiased exponent exp >= 0:
\* the magnitude.
RoundDoubleToAPInt_mag(d, exp, parts) ==
    IF exp < FractionBits
    THEN lshr(zext(Mantissa(d), parts), FractionBits - exp)
    ELSE IF parts * BigIntDigitSizeInBits <= exp - FractionBits
    THEN Fill(0, parts)
    ELSE shl(zext(Mantissa(d), parts), exp - FractionBits)

RoundDoubleToAPInt_signed(d, mag, parts) ==
    IF d.sign = 1 THEN tcNegate(mag, parts) ELSE mag

RoundDoubleToAPInt(d, width) ==
    IF d.exp - ExponentBias < 0
    THEN Fill(0, width \div BigIntDigitSizeInBits)
    ELSE RoundDoubleToAPInt_signed(d,
             RoundDoubleToAPInt_mag(d, d.exp - ExponentBias,
                                    width \div BigIntDigitSizeInBits),
             width \div BigIntDigitSizeInBits)

fromDoubleResultSize_NoSignBit(d) ==
    IF d.exp - ExponentBias < 0 THEN 0
    ELSE numDigitsForSizeInBits(d.exp - ExponentBias + 1)

fromDoubleResultSize(d) ==
    IF d.exp - ExponentBias < 0 THEN 0
    ELSE numDigitsForSizeInBits(d.exp - ExponentBias + 2)

MaxBitsToRepresentDouble == alignTo(1024 + 1, BigIntDigitSizeInBits)

\* fromDouble, given the result res of its initWithBytes and the value ok
\* of the condition it asserts.
fromDouble_res(res, ok) ==
    [status |-> res.status, digits |-> res.digits,
     numDigits |-> res.numDigits, asserted |-> ok]

fromDouble(digits, n, d) ==
    fromDouble_res(
        initWithBytes(digits, n,
            dropExtraSignBits(BytesOf(
                RoundDoubleToAPInt(d, MaxBitsToRepresentDouble)))),
        n >= fromDoubleResultSize(d))

(***************************************************************************)
(* The calls.  Every operation is a function of its arguments and of the   *)
(* destination buffer handed to it; nothing else survives a call.  A call  *)
(* is made from the idle state with operands and a freshly allocated       *)
(* destination chosen by the caller, and leaves its arguments and results  *)
(* in the state until the caller takes them (Return).                      *)
(***************************************************************************)
ByteSeqs == SeqsUpTo(ByteVals, MaxBytes)
AllRefs == SeqsUpTo(DigitVals, MaxDigits)

\* The canonical invariant of the data model: no most-significant digit that
\* a sign extension of the digit below it (of nothing, for a single digit)
\* would reproduce.
IsCanonical(ref) ==
    \/ Len(ref) = 0
    \/ Last(ref) # getSignExtValueDigit(IF Len(ref) = 1 THEN 0
                                        ELSE ref[Len(ref) - 1])

CanonicalRefs == {r \in AllRefs : IsCanonical(r)}

\* The radixes toString takes, and the values it is called on: the canonical
\* refs and -255.
Radixes == 2..36

\* The literals handed to the parser: every string of up to MaxInput of
\* these characters, and some longer ones.
LiteralChars == {"0", "1", "F", "b", "x", "+", "-", "SP", "NUL"}
ExampleInputs ==
    {<<"0", "x", "1", "F">>, <<"SP", "SP", "-", "0", "4", "2", "SP">>,
     <<"0", "X", "f", "F", "0">>, <<"0", "O", "0", "1", "7">>,
     <<"0", "B", "1", "0", "1">>, <<"0", "o", "7">>, <<"0", "b", "o", "7">>,
     <<"0", "b", "7">>, <<"0", "7">>, <<"1", "7">>,
     <<"TAB", "+", "0", "0", "9", "NBSP", "NUL">>}
\* Every character that has a token, alone and at either end of a literal.
EdgeInputs ==
    UNION {{<<e.c>>, <<e.c, "1">>, <<"1", e.c>>, <<e.c, "1", e.c, "NUL">>} :
               e \in CharCodes}
LiteralInputs ==
    SeqsUpTo(LiteralChars, MaxInput) \cup ExampleInputs \cup EdgeInputs

\* The error sink the caller passes: none, or a string with something in it.
ErrorSinks == {<<>>, <<"unset">>}
ToStringRefs == CanonicalRefs \cup {<<DigitBase - (ByteBase - 1)>>}

\* What the variables of a call that is not under way hold.
NoDouble == [sign |-> 0, exp |-> 0, frac |-> <<0, 0, 0, 0>>]
NoParser == BigIntLiteralParsingToolBox(<<>>, 0, <<>>)
NoFrame ==
    [ch |-> <<>>, atZero |-> 0, err |-> "none", digits |-> {},
     orElse |-> "none"]

Idle ==
    /\ pc = "idle" /\ op = "none" /\ status = "none"
    /\ dst = <<>> /\ numDigits = 0 /\ cap = 0 /\ prior = <<>>
    /\ lhs = <<>> /\ rhs = <<>> /\ data = <<>> /\ out = <<>>
    /\ result = 0 /\ scalar = 0 /\ asserted = TRUE
    /\ radix = 0 /\ str = <<>> /\ input = <<>> /\ ret = <<>>
    /\ sign = "None" /\ outError = <<>>
    /\ opPost = "none" /\ double = NoDouble
    /\ parser = NoParser /\ frame = NoFrame /\ restores = 0

Init == Idle

\* A call on a destination: the arguments and what the operation left.
Mutated(name, n, before, l, r, bytes, res, ok) ==
    /\ pc' = "returned" /\ op' = name
    /\ cap' = n /\ prior' = before
    /\ lhs' = l /\ rhs' = r /\ data' = bytes
    /\ status' = res.status /\ dst' = res.digits /\ numDigits' = res.numDigits
    /\ asserted' = ok
    /\ opPost' = (IF "opPost" \in DOMAIN res THEN res.opPost ELSE "none")
    /\ UNCHANGED <<out, result, scalar, double>>
    /\ UNCHANGED stringVars

CallDropExtraSignBits ==
    /\ pc = "idle"
    /\ \E src \in ByteSeqs :
          /\ data' = src
          /\ out' = dropExtraSignBits(src)
    /\ pc' = "returned" /\ op' = "dropExtraSignBits"
    /\ UNCHANGED <<status, dst, numDigits, cap, prior, lhs, rhs, result,
                   scalar, asserted, opPost, double>>
    /\ UNCHANGED stringVars

CallInitWithBytes ==
    /\ pc = "idle"
    /\ \E n \in 0..MaxCap, g \in PriorVals, bytes \in ByteSeqs :
          Mutated("initWithBytes", n, Fill(g, n), <<>>, <<>>, bytes,
                  initWithBytes(Fill(g, n), n, bytes), TRUE)

CallCompare ==
    /\ pc = "idle"
    /\ \E l \in AllRefs, r \in AllRefs :
          /\ lhs' = l /\ rhs' = r
          /\ result' = compare(l, r)
    /\ pc' = "returned" /\ op' = "compare"
    /\ UNCHANGED <<status, dst, numDigits, cap, prior, data, out, scalar,
                   asserted, opPost, double>>
    /\ UNCHANGED stringVars

CallCompareScalar ==
    /\ pc = "idle"
    /\ \E l \in AllRefs, s \in DigitVals :
          /\ lhs' = l /\ scalar' = s
          /\ result' = compareScalar(l, s)
    /\ pc' = "returned" /\ op' = "compareScalar"
    /\ UNCHANGED <<status, dst, numDigits, cap, prior, rhs, data, out,
                   asserted, opPost, double>>
    /\ UNCHANGED stringVars

CallUnaryMinus ==
    /\ pc = "idle"
    /\ \E n \in 0..MaxCap, g \in PriorVals, src \in CanonicalRefs :
          LET res == unaryMinus(Fill(g, n), n, src)
          IN  Mutated("unaryMinus", n, Fill(g, n), src, <<>>, <<>>, res,
                      res.asserted)

CallUnaryNot ==
    /\ pc = "idle"
    /\ \E n \in 0..MaxCap, g \in PriorVals, src \in CanonicalRefs :
          Mutated("unaryNot", n, Fill(g, n), src, <<>>, <<>>,
                  unaryNot(Fill(g, n), n, src), TRUE)

CallAdd ==
    /\ pc = "idle"
    /\ \E n \in 0..MaxCap, g \in PriorVals,
          l \in CanonicalRefs, r \in CanonicalRefs :
          Mutated("add", n, Fill(g, n), l, r, <<>>,
                  add(Fill(g, n), n, l, r), TRUE)

CallSubtract ==
    /\ pc = "idle"
    /\ \E n \in 0..MaxCap, g \in PriorVals,
          l \in CanonicalRefs, r \in CanonicalRefs :
          Mutated("subtract", n, Fill(g, n), l, r, <<>>,
                  subtract(Fill(g, n), n, l, r), TRUE)

CallToString ==
    /\ pc = "idle"
    /\ \E src \in ToStringRefs, rdx \in Radixes :
          /\ lhs' = src /\ radix' = rdx
          /\ str' = toString(src, rdx)
    /\ pc' = "returned" /\ op' = "toString"
    /\ UNCHANGED <<status, dst, numDigits, cap, prior, rhs, data, out,
                   result, scalar, asserted, opPost, double>>
    /\ UNCHANGED <<input, ret, sign, outError>>
    /\ UNCHANGED runVars

\* A call of the parser: the literal and what the call returned and left
\* behind the references it was given.
Parsed(name, src, res) ==
    /\ pc' = "returned" /\ op' = name
    /\ input' = src
    /\ ret' = res.ret /\ radix' = res.radix /\ sign' = res.sign
    /\ outError' = res.outError
    /\ UNCHANGED digitVars
    /\ UNCHANGED str
    /\ UNCHANGED runVars

CallGetStringIntegerLiteralDigitsAndSign ==
    /\ pc = "idle"
    /\ \E src \in LiteralInputs, err \in ErrorSinks :
          Parsed("getStringIntegerLiteralDigitsAndSign", src,
                 getStringIntegerLiteralDigitsAndSign(src, 0, err))

\* The strings parsed to bytes: the decimal strings toString makes, the
\* examples, and every string of up to MaxParsed characters.
DecimalStrings == {[x |-> x, str |-> toString(x, 10)] : x \in ToStringRefs}
ParsedInputs ==
    {d.str : d \in DecimalStrings}
        \cup ExampleInputs \cup SeqsUpTo(LiteralChars, MaxParsed)

\* parsedBigIntFrom with its own radix and sign: the caller sees the bytes
\* and the error sink.
LocalsDropped(res) ==
    [ret |-> res.ret, outError |-> res.outError, radix |-> 0,
     sign |-> "None"]

CallParsedBigIntFrom ==
    /\ pc = "idle"
    /\ \E src \in ParsedInputs, err \in ErrorSinks :
          Parsed("parsedBigIntFrom", src,
                 LocalsDropped(parsedBigIntFrom(src, err)))

\* The finite doubles converted: both signs, exponents around every digit
\* boundary the result crosses, and the fractions at and between their
\* ends.
DoubleExponents ==
    {ExponentBias + e :
        e \in {-ExponentBias, 1 - ExponentBias, -1, 0, 1, 14, 15, 16, 30, 31,
               51, 52, 53, 62, 63, ExponentBias}}
DoubleFractions ==
    {<<0, 0, 0, 0>>, <<1, 0, 0, 0>>, <<0, 0, 0, HiddenBit \div 2>>,
     <<DigitBase - 1, DigitBase - 1, DigitBase - 1, HiddenBit - 1>>}
Doubles == [sign : {0, 1}, exp : DoubleExponents, frac : DoubleFractions]

\* The destination has the digits fromDoubleResultSize asks for, or one
\* digit more.
FromDoubleReturned(n, before, d, res) ==
    /\ pc' = "returned" /\ op' = "fromDouble"
    /\ cap' = n /\ prior' = before /\ double' = d
    /\ status' = res.status /\ dst' = res.digits /\ numDigits' = res.numDigits
    /\ asserted' = res.asserted
    /\ UNCHANGED <<lhs, rhs, data, out, result, scalar, opPost>>
    /\ UNCHANGED stringVars

CallFromDouble ==
    /\ pc = "idle"
    /\ \E d \in Doubles, extra \in {0, 1}, g \in PriorVals :
          FromDoubleReturned(fromDoubleResultSize(d) + extra,
              Fill(g, fromDoubleResultSize(d) + extra), d,
              fromDouble(Fill(g, fromDoubleResultSize(d) + extra),
                         fromDoubleResultSize(d) + extra, d))

\* The caller takes the result; the refs of the call are gone.
Return ==
    /\ pc = "returned"
    /\ pc' = "idle" /\ op' = "none" /\ status' = "none"
    /\ dst' = <<>> /\ numDigits' = 0 /\ cap' = 0 /\ prior' = <<>>
    /\ lhs' = <<>> /\ rhs' = <<>> /\ data' = <<>> /\ out' = <<>>
    /\ result' = 0 /\ scalar' = 0 /\ asserted' = TRUE
    /\ radix' = 0 /\ str' = <<>> /\ input' = <<>> /\ ret' = <<>>
    /\ sign' = "None" /\ outError' = <<>>
    /\ opPost' = "none" /\ double' = NoDouble
    /\ UNCHANGED runVars

Next ==
    \/ CallDropExtraSignBits
    \/ CallInitWithBytes
    \/ CallCompare
    \/ CallCompareScalar
    \/ CallUnaryMinus
    \/ CallUnaryNot
    \/ CallAdd
    \/ CallSubtract
    \/ CallToString
    \/ CallGetStringIntegerLiteralDigitsAndSign
    \/ CallParsedBigIntFrom
    \/ CallFromDouble
    \/ Return

Spec == Init /\ [][Next]_vars

(***************************************************************************)
(* The mathematical value of a ref, for stating what an operation          *)
(* computes.  A value is kept as its signed limbs (every digit but the     *)
(* most significant unsigned, the most significant one signed), so that    *)
(* no width is lost: value(ref) is the sum of limb[i] * DigitBase^(i-1).   *)
(***************************************************************************)
SignedLimbs(ref) ==
    [i \in 1..Len(ref) |->
        IF i = Len(ref) /\ ref[i] >= DigitBase \div 2 THEN ref[i] - DigitBase
        ELSE ref[i]]

LimbAt(v, i) == IF i <= Len(v) THEN v[i] ELSE 0

RECURSIVE MaxLen(_)
MaxLen(refs) ==
    IF refs = <<>> THEN 0 ELSE Max(Len(Head(refs)), MaxLen(Tail(refs)))

RECURSIVE LimbSum(_, _)
LimbSum(refs, i) ==
    IF refs = <<>> THEN 0
    ELSE LimbAt(SignedLimbs(Head(refs)), i) + LimbSum(Tail(refs), i)

\* The sign of the integer whose limbs are v[i..], given the carry c out of
\* the limbs below i and whether one of those came out non-zero: the limbs
\* are normalised to 0..DigitBase-1 from the least significant one up, and
\* the sign is that of the final carry, or of the limbs when it is zero.
RECURSIVE SignFrom(_, _, _, _)
SignFrom(v, i, c, nz) ==
    IF i > Len(v)
    THEN (IF c < 0 THEN -1 ELSE IF c > 0 \/ nz THEN 1 ELSE 0)
    ELSE LET t == v[i] + c
         IN  SignFrom(v, i + 1, (t - (t % DigitBase)) \div DigitBase,
                      nz \/ t % DigitBase # 0)

\* The sign (-1, 0 or 1) of the sum of the values of the refs in `plus`
\* minus the sum of the values of the refs in `minus`.
SignOfSum(plus, minus) ==
    LET width == Max(MaxLen(plus), MaxLen(minus))
        v == [i \in 1..width |-> LimbSum(plus, i) - LimbSum(minus, i)]
    IN  SignFrom(v, 1, 0, FALSE)

\* p sign-extended to n bytes (nothing extends to zeros).
SignExtendBytes(p, n) ==
    p \o Fill(IF p = <<>> THEN 0 ELSE getSignExtValueByte(Last(p)), n - Len(p))

IsPrefix(p, b) == Len(p) <= Len(b) /\ p = SubSeq(b, 1, Len(p))

\* The digits the destination holds on return: its first numDigits digits.
ResultRef == SubSeq(dst, 1, numDigits)

MutatingOps == {"initWithBytes", "unaryMinus", "unaryNot", "add", "subtract"}

(***************************************************************************)
(* Canonical results                                                       *)
(***************************************************************************)
\* C1: every call of initWithBytes, unaryMinus, unaryNot, add or subtract
\* that returns RETURNED leaves the destination canonical: trimming the byte
\* view of its numDigits digits with dropExtraSignBits removes less than one
\* whole digit, so that canonicalizing again leaves numDigits as it is; no
\* most-significant digit is a sign extension of the digit below it; and a
\* result of value zero has numDigits = 0.
C1_ResultIsCanonical ==
    (pc = "returned" /\ op \in MutatingOps /\ status = "RETURNED") =>
        LET bytes == BytesOf(ResultRef)
            trimmed == dropExtraSignBits(bytes)
        IN  /\ numDigits <= cap
            /\ Len(bytes) - Len(trimmed) < BigIntDigitSizeInBytes
            /\ numDigitsForSizeInBytes(Len(trimmed)) = numDigits
            /\ IsCanonical(ResultRef)
            /\ (SignOfSum(<<SubSeq(dst, 1, numDigits)>>, <<>>) = 0
                    => numDigits = 0)
            /\ ((\A i \in 1..numDigits : dst[i] = 0) => numDigits = 0)

\* A subtraction x - x of a non-zero x into a destination of several digits
\* came out as the zero-digit zero.
C1_Witness ==
    /\ pc = "returned" /\ op = "subtract" /\ status = "RETURNED"
    /\ lhs # <<>> /\ lhs = rhs
    /\ cap > 1 /\ numDigits = 0

(***************************************************************************)
(* add                                                                     *)
(***************************************************************************)
\* C2: for canonical lhs and rhs and a destination of exactly
\* addResultSize(lhs, rhs) = max(lhs.numDigits, rhs.numDigits) + 1 digits,
\* add returns RETURNED and the destination is the canonical representation
\* of the mathematical sum lhs + rhs, without wrap-around; the largest
\* positive one-digit value plus one is the two-digit value one above it.
C2_AddIsExactSum ==
    (pc = "returned" /\ op = "add" /\ cap = addResultSize(lhs, rhs)) =>
        /\ cap = Max(Len(lhs), Len(rhs)) + 1
        /\ status = "RETURNED"
        /\ IsCanonical(ResultRef)
        /\ SignOfSum(<<ResultRef>>, <<lhs, rhs>>) = 0
        /\ (lhs = <<DigitBase \div 2 - 1>> /\ rhs = <<1>>
                => ResultRef = <<DigitBase \div 2, 0>>)

\* The carry into the extra digit: (largest positive one-digit value) + 1.
C2_Witness ==
    /\ pc = "returned" /\ op = "add" /\ status = "RETURNED"
    /\ lhs = <<DigitBase \div 2 - 1>> /\ rhs = <<1>>
    /\ cap = 2 /\ numDigits = 2

(***************************************************************************)
(* subtract                                                                *)
(***************************************************************************)
\* C3: for canonical lhs and rhs, whichever has more digits, and a
\* destination of exactly subtractResultSize(lhs, rhs) =
\* max(lhs.numDigits, rhs.numDigits) + 1 digits, subtract returns RETURNED
\* and the destination is the canonical representation of the mathematical
\* difference lhs - rhs; in particular the negation on the swapped path
\* (lhs has more digits than rhs) yields the exact value, never the wrapped
\* most negative one.
C3_SubtractIsExactDifference ==
    (pc = "returned" /\ op = "subtract" /\ cap = subtractResultSize(lhs, rhs)) =>
        /\ cap = Max(Len(lhs), Len(rhs)) + 1
        /\ status = "RETURNED"
        /\ IsCanonical(ResultRef)
        /\ SignOfSum(<<ResultRef, rhs>>, <<lhs>>) = 0

\* The swapped path with a result that needs the extra digit: a most
\* negative two-digit lhs minus a positive one-digit rhs.
C3_Witness ==
    /\ pc = "returned" /\ op = "subtract" /\ status = "RETURNED"
    /\ Len(lhs) = 2 /\ Len(rhs) = 1
    /\ isNegative(lhs) /\ ~isNegative(rhs)
    /\ cap = 3 /\ numDigits = 3

(***************************************************************************)
(* DEST_TOO_SMALL                                                          *)
(***************************************************************************)
\* C4: whenever a mutating operation (initWithBytes, unaryMinus, unaryNot,
\* add, subtract) returns DEST_TOO_SMALL, the destination's digit count is 0
\* on return.
C4_TooSmallResetsDigitCount ==
    (pc = "returned" /\ op \in MutatingOps /\ status = "DEST_TOO_SMALL") =>
        numDigits = 0

(***************************************************************************)
(* dropExtraSignBits                                                       *)
(***************************************************************************)
\* C5: for every little-endian byte sequence b, dropExtraSignBits(b) is a
\* prefix p of b whose sign extension to the length of b is b, and no
\* shorter prefix of b has that property; the empty input and an all-0x00
\* input give the empty output, an all-0xFF input gives the single byte
\* 0xFF; and applying dropExtraSignBits to its output changes nothing.
C5_ShortestSignExtendingPrefix ==
    (pc = "returned" /\ op = "dropExtraSignBits") =>
        /\ IsPrefix(out, data)
        /\ SignExtendBytes(out, Len(data)) = data
        /\ \A k \in 0..Len(data) :
              SignExtendBytes(SubSeq(data, 1, k), Len(data)) = data
                  => Len(out) <= k
        /\ (data = <<>> => out = <<>>)
        /\ ((\A i \in 1..Len(data) : data[i] = 0) => out = <<>>)
        /\ ((data # <<>> /\ \A i \in 1..Len(data) : data[i] = ByteBase - 1)
                => out = <<ByteBase - 1>>)
        /\ dropExtraSignBits(out) = out

\* A positive value whose top byte has its sign bit set keeps one 0x00 above
\* it and loses the rest.
C5_Witness ==
    /\ pc = "returned" /\ op = "dropExtraSignBits"
    /\ data = <<128, 0, 0, 0>> /\ out = <<128, 0>>

C7_InitWithBytesStatus ==
    (pc = "returned" /\ op = "initWithBytes") =>
        /\ status \in {"RETURNED", "DEST_TOO_SMALL"}
        /\ (status = "DEST_TOO_SMALL"
                <=> Len(data) > cap * BigIntDigitSizeInBytes)
        /\ (status = "DEST_TOO_SMALL" => numDigits = 0)
        /\ (data = <<>> => status = "RETURNED" /\ numDigits = 0)

\* Data one byte longer than a non-empty destination is refused, and the
\* digit count comes back as 0.
C7_Witness ==
    /\ pc = "returned" /\ op = "initWithBytes"
    /\ cap > 0 /\ Len(data) = cap * BigIntDigitSizeInBytes + 1
    /\ status = "DEST_TOO_SMALL" /\ numDigits = 0

\* C8: for every byte sequence b that fits the destination, of a length
\* that is a multiple of the digit size or not, after initWithBytes(dst, b)
\* the first dst.numDigits digits read as little-endian bytes and trimmed
\* with dropExtraSignBits equal dropExtraSignBits(b): the stored digits are
\* b sign-extended from the sign bit of its last byte.
C8_InitWithBytesRoundTrip ==
    (pc = "returned" /\ op = "initWithBytes" /\ status = "RETURNED") =>
        /\ dropExtraSignBits(BytesOf(ResultRef)) = dropExtraSignBits(data)
        /\ Len(dropExtraSignBits(data)) <= numDigits * BigIntDigitSizeInBytes
        /\ BytesOf(ResultRef) =
              SignExtendBytes(dropExtraSignBits(data),
                              numDigits * BigIntDigitSizeInBytes)

\* Three bytes of a negative value into two digits: the fourth byte is the
\* sign extension.
C8_Witness ==
    /\ pc = "returned" /\ op = "initWithBytes" /\ status = "RETURNED"
    /\ Len(data) = 3 /\ data[3] = 128
    /\ numDigits = 2 /\ dst[2] = (ByteBase - 1) * ByteBase + 128

(***************************************************************************)
(* compare                                                                 *)
(***************************************************************************)
\* The canonical one-digit (or zero-digit) ref of a signed scalar.
CanonicalScalar(s) == IF s = 0 THEN <<>> ELSE <<s>>

\* C9: for canonical operands compare(lhs, rhs) is -1, 0 or 1, the sign of
\* value(lhs) - value(rhs): differing signs are decided by sign, equal digit
\* counts digit-wise, unequal digit counts by digit count (more digits is
\* greater for non-negatives, smaller for negatives).  The scalar overload
\* gives what compare(lhs, canonical(s)) gives for every signed one-digit
\* scalar, s = 0, s = -1 and the most negative scalar included.
C9_CompareIsSignOfDifference ==
    /\ (pc = "returned" /\ op = "compare"
            /\ IsCanonical(lhs) /\ IsCanonical(rhs)) =>
          /\ result \in {-1, 0, 1}
          /\ result = SignOfSum(<<lhs>>, <<rhs>>)
          /\ (isNegative(lhs) /\ ~isNegative(rhs) => result = -1)
          /\ (~isNegative(lhs) /\ isNegative(rhs) => result = 1)
          /\ (isNegative(lhs) = isNegative(rhs) /\ Len(lhs) # Len(rhs) =>
                result = IF (Len(lhs) > Len(rhs)) = isNegative(lhs)
                         THEN -1 ELSE 1)
    /\ (pc = "returned" /\ op = "compareScalar" /\ IsCanonical(lhs)) =>
          /\ result = compare(lhs, CanonicalScalar(scalar))
          /\ result = SignOfSum(<<lhs>>, <<<<scalar>>>>)

\* Two negative operands of unequal digit counts: the one with fewer digits
\* is the greater.
C9_Witness ==
    /\ pc = "returned" /\ op = "compare"
    /\ IsCanonical(lhs) /\ IsCanonical(rhs)
    /\ isNegative(lhs) /\ isNegative(rhs)
    /\ Len(lhs) = 1 /\ Len(rhs) = 2 /\ result = 1

\* C10: for all refs x, y, z: compare(x, y) = -compare(y, x);
\* compare(x, x) = 0; and if compare(x, y) = 0 and compare(y, z) = 0 then
\* compare(x, z) = 0.
C10_CompareConsistency ==
    (pc = "returned" /\ op = "compare") =>
        /\ result = -compare(rhs, lhs)
        /\ compare(lhs, lhs) = 0
        /\ \A z \in AllRefs :
              (result = 0 /\ compare(rhs, z) = 0) => compare(lhs, z) = 0

\* Operands of different signs, compared in the order negative, positive.
C10_Witness ==
    /\ pc = "returned" /\ op = "compare"
    /\ isNegative(lhs) /\ ~isNegative(rhs) /\ rhs # <<>>
    /\ result = -1

(***************************************************************************)
(* unaryMinus, unaryNot                                                    *)
(***************************************************************************)
\* The most negative value of its width: the sign bit alone.
IsMostNegative(ref) ==
    /\ ref # <<>>
    /\ Last(ref) = DigitBase \div 2
    /\ \A i \in 1..(Len(ref) - 1) : ref[i] = 0

\* C11: for every canonical src and a destination of exactly
\* unaryMinusResultSize(src) digits (src.numDigits for a non-negative src,
\* src.numDigits + 1 for a negative one), unaryMinus returns RETURNED and the
\* destination is the canonical representation of -value(src); negating the
\* most negative value of its width gains one digit, negating zero gives the
\* zero-digit zero, and compare(0, unaryMinus(0)) = 0.
C11_UnaryMinusIsExactNegation ==
    (pc = "returned" /\ op = "unaryMinus" /\ cap = unaryMinusResultSize(lhs)) =>
        /\ cap = IF isNegative(lhs) THEN Len(lhs) + 1 ELSE Len(lhs)
        /\ status = "RETURNED"
        /\ IsCanonical(ResultRef)
        /\ SignOfSum(<<ResultRef, lhs>>, <<>>) = 0
        /\ (IsMostNegative(lhs) => numDigits = Len(lhs) + 1)
        /\ (lhs = <<>> => numDigits = 0 /\ compare(<<>>, ResultRef) = 0)

\* The most negative two-digit value, negated into three digits.
C11_Witness ==
    /\ pc = "returned" /\ op = "unaryMinus" /\ status = "RETURNED"
    /\ lhs = <<0, DigitBase \div 2>>
    /\ cap = 3 /\ numDigits = 3

\* C12: whenever unaryMinus returns RETURNED for a canonical src of non-zero
\* value, for any destination capacity the call accepts
\* (dst.numDigits >= src.numDigits), the sign of the result differs from the
\* sign of src, and the condition of the "unaryMinus overflow" assertion is
\* true.
C12_NegationFlipsSign ==
    (pc = "returned" /\ op = "unaryMinus" /\ status = "RETURNED"
        /\ SignOfSum(<<lhs>>, <<>>) # 0) =>
        /\ cap >= Len(lhs)
        /\ isNegative(ResultRef) # isNegative(lhs)
        /\ asserted

\* C13: for every canonical x, with each destination sized by
\* unaryMinusResultSize of its input, unaryMinus(unaryMinus(x)) has the digit
\* count and the digits of x.
C13_NegationIsInvolution ==
    (pc = "returned" /\ op = "unaryMinus" /\ cap = unaryMinusResultSize(lhs)) =>
        \A g \in PriorVals :
            LET n2 == unaryMinusResultSize(ResultRef)
                back == unaryMinus(Fill(g, n2), n2, ResultRef)
            IN  /\ back.status = "RETURNED"
                /\ back.numDigits = Len(lhs)
                /\ SubSeq(back.digits, 1, back.numDigits) = lhs

\* A positive two-digit x whose negation is the most negative one-digit
\* value: the way back needs the second digit again.
C13_Witness ==
    /\ pc = "returned" /\ op = "unaryMinus" /\ status = "RETURNED"
    /\ lhs = <<DigitBase \div 2, 0>>
    /\ cap = 2 /\ numDigits = 1

\* C14: for every canonical src and a destination of
\* unaryNotResultSize(src) = max(1, src.numDigits) digits, unaryNot returns
\* RETURNED and the destination is the canonical representation of
\* -value(src) - 1; ~0 is the one-digit -1 and ~(-1) is the zero-digit zero.
C14_UnaryNotIsComplement ==
    (pc = "returned" /\ op = "unaryNot" /\ cap = unaryNotResultSize(lhs)) =>
        /\ cap = Max(1, Len(lhs))
        /\ status = "RETURNED"
        /\ IsCanonical(ResultRef)
        /\ SignOfSum(<<ResultRef, lhs, <<1>>>>, <<>>) = 0
        /\ (lhs = <<>> => ResultRef = <<DigitBase - 1>>)
        /\ (lhs = <<DigitBase - 1>> => numDigits = 0)

\* ~0 in a destination of one digit.
C14_Witness ==
    /\ pc = "returned" /\ op = "unaryNot" /\ status = "RETURNED"
    /\ lhs = <<>> /\ cap = 1 /\ numDigits = 1 /\ dst = <<DigitBase - 1>>

(***************************************************************************)
(* add and subtract together                                               *)
(***************************************************************************)
\* C15: for all canonical x and y, with every destination sized by the
\* matching result-size predictor, subtract(add(x, y), y) has the digit count
\* and the digits of x.
C15_SubtractUndoesAdd ==
    (pc = "returned" /\ op = "add" /\ cap = addResultSize(lhs, rhs)) =>
        \A g \in PriorVals :
            LET n2 == subtractResultSize(ResultRef, rhs)
                back == subtract(Fill(g, n2), n2, ResultRef, rhs)
            IN  /\ status = "RETURNED"
                /\ back.status = "RETURNED"
                /\ back.numDigits = Len(lhs)
                /\ SubSeq(back.digits, 1, back.numDigits) = lhs

\* A sum that is one digit wider than x and y: the subtraction takes the
\* swapped path.
C15_Witness ==
    /\ pc = "returned" /\ op = "add" /\ status = "RETURNED"
    /\ Len(lhs) = 2 /\ Len(rhs) = 2 /\ cap = 3 /\ numDigits = 3

\* C16: add and subtract return DEST_TOO_SMALL exactly when
\* dst.numDigits < max(lhs.numDigits, rhs.numDigits), and RETURNED for every
\* destination of at least max(lhs.numDigits, rhs.numDigits) digits.
C16_AdditiveStatus ==
    (pc = "returned" /\ op \in {"add", "subtract"}) =>
        /\ status \in {"RETURNED", "DEST_TOO_SMALL"}
        /\ (status = "DEST_TOO_SMALL" <=> cap < Max(Len(lhs), Len(rhs)))
        /\ (cap >= Max(Len(lhs), Len(rhs)) => status = "RETURNED")

\* A destination of exactly max(lhs.numDigits, rhs.numDigits) digits, one
\* short of the predicted size, is accepted.
C16_Witness ==
    /\ pc = "returned" /\ op = "subtract"
    /\ Len(lhs) = 2 /\ Len(rhs) = 1 /\ cap = 2
    /\ status = "RETURNED"

\* C17: when add or subtract is called with
\* dst.numDigits > max(lhs.numDigits, rhs.numDigits) + 1, only the
\* destination digits at indices 0 .. max(lhs.numDigits, rhs.numDigits) are
\* written: every digit at a higher index keeps its prior content, and the
\* resulting digit count is at most max(lhs.numDigits, rhs.numDigits) + 1.
C17_OversizedDestinationTail ==
    (pc = "returned" /\ op \in {"add", "subtract"}
        /\ cap > Max(Len(lhs), Len(rhs)) + 1) =>
        /\ status = "RETURNED"
        /\ Len(dst) = cap
        /\ \A i \in (Max(Len(lhs), Len(rhs)) + 2)..cap : dst[i] = prior[i]
        /\ numDigits <= Max(Len(lhs), Len(rhs)) + 1

\* The negating path of subtract into a destination one digit too large,
\* with a result that uses every digit it may.
C17_Witness ==
    /\ pc = "returned" /\ op = "subtract" /\ status = "RETURNED"
    /\ Len(lhs) = 2 /\ Len(rhs) = 1 /\ cap = 4
    /\ numDigits = 3 /\ dst[4] = prior[4] /\ dst[3] # prior[3]

(***************************************************************************)
(* toString                                                                *)
(***************************************************************************)
\* The characters that are digits of the radix: 0-9 and then a-z.
DigitCharsOf(rdx) == Range(SubSeq(DecimalChars \o LowerChars, 1, rdx))

\* C18: for every canonical src and radix r in [2, 36], toString(src, r) is
\* "0" when src is zero; otherwise it is the base-r digits of |value(src)|
\* in the characters 0-9 then a-z, most significant first, with no leading
\* '0' and no radix prefix, preceded by a single '-' exactly when src is
\* negative (-255 in radix 16 gives "-ff"), also for the most negative value
\* of a width.
C18_ToStringIsBaseRDigits ==
    (pc = "returned" /\ op = "toString") =>
        IF SignOfSum(<<lhs>>, <<>>) = 0 THEN str = <<"0">>
        ELSE LET neg == isNegative(lhs)
                 body == IF str # <<>> /\ Head(str) = "-" THEN Tail(str)
                         ELSE str
                 mag == fromString(Len(lhs) + 1, body, radix)
             IN  /\ str # <<>>
                 /\ (Head(str) = "-") <=> neg
                 /\ body # <<>>
                 /\ Len(body) <= BigIntDigitSizeInBits * Len(lhs)
                 /\ \A i \in 1..Len(body) : body[i] \in DigitCharsOf(radix)
                 /\ body[1] # "0"
                 /\ Last(mag) = 0
                 /\ IF neg THEN SignOfSum(<<mag, lhs>>, <<>>) = 0
                    ELSE SignOfSum(<<mag>>, <<lhs>>) = 0
                 /\ (lhs = <<DigitBase - (ByteBase - 1)>> /\ radix = 16 =>
                        str = <<"-", "f", "f">>)

\* The most negative one-digit value in decimal.
C18_Witness ==
    /\ pc = "returned" /\ op = "toString"
    /\ lhs = <<DigitBase \div 2>> /\ radix = 10
    /\ Head(str) = "-" /\ Len(str) = 6

(***************************************************************************)
(* The literal parser                                                      *)
(***************************************************************************)
RECURSIVE TrimFront(_)
TrimFront(s) ==
    IF s # <<>> /\ isWhiteSpaceChar(Head(s)) THEN TrimFront(Tail(s)) ELSE s

RECURSIVE TrimBack(_)
TrimBack(s) ==
    IF s # <<>> /\ isWhiteSpaceChar(s[Len(s)])
    THEN TrimBack(SubSeq(s, 1, Len(s) - 1)) ELSE s

\* s without the white space at its ends.
Trimmed(s) == TrimBack(TrimFront(s))

NonEmptyRunOf(s, chars) == s # <<>> /\ \A i \in 1..Len(s) : s[i] \in chars

\* A digit run without its leading zeros, the last digit always staying.
RECURSIVE StripZeroes(_)
StripZeroes(s) ==
    IF Len(s) > 1 /\ Head(s) = "0" THEN StripZeroes(Tail(s)) ELSE s

\* The grammar's prefixes, each with its radix and its digits.
Prefixes ==
    {[chars |-> {"x", "X"}, radix |-> 16,
      digits |-> Range(DecimalChars) \cup Range(SubSeq(LowerChars, 1, 6))
                     \cup Range(SubSeq(UpperChars, 1, 6))],
     [chars |-> {"o", "O"}, radix |-> 8,
      digits |-> Range(SubSeq(DecimalChars, 1, 8))],
     [chars |-> {"b", "B"}, radix |-> 2,
      digits |-> Range(SubSeq(DecimalChars, 1, 2))]}

\* The grammar's signs, each with the character that gives it.
Signs == {[sign |-> "None", char |-> <<>>], [sign |-> "Plus", char |-> <<"+">>],
          [sign |-> "Minus", char |-> <<"-">>]}

IsPrefixOf(p, s) == Len(p) <= Len(s) /\ SubSeq(s, 1, Len(p)) = p

\* C20: every white-space-trimmed input that matches the literal grammar is
\* accepted with the right triple: 0[xX] / 0[oO] / 0[bB] and a non-empty run
\* of digits of that base give radix 16 / 8 / 2, sign None and exactly the
\* digit characters after the prefix ("0x1F": radix 16, digits "1F"); an
\* optional '+' or '-' and a non-empty decimal digit run give radix 10, the
\* matching sign, and the run without its leading zeros, an all-zero run
\* becoming "0" ("  -042 ": digits "42", sign Minus).
C20_GrammarIsAccepted ==
    (pc = "returned" /\ op = "getStringIntegerLiteralDigitsAndSign") =>
        LET t == Trimmed(input)
        IN  /\ \A pre \in Prefixes :
                  (/\ Len(t) >= 2 /\ t[1] = "0" /\ t[2] \in pre.chars
                   /\ NonEmptyRunOf(SubSeq(t, 3, Len(t)), pre.digits)) =>
                      /\ ret = <<SubSeq(t, 3, Len(t))>>
                      /\ radix = pre.radix
                      /\ sign = "None"
            /\ \A sg \in Signs :
                  (/\ IsPrefixOf(sg.char, t)
                   /\ NonEmptyRunOf(SubSeq(t, Len(sg.char) + 1, Len(t)),
                                    Range(DecimalChars))) =>
                      /\ ret = <<StripZeroes(SubSeq(t, Len(sg.char) + 1,
                                                    Len(t)))>>
                      /\ radix = 10
                      /\ sign = sg.sign
            /\ (input = <<"0", "x", "1", "F">> =>
                    ret = <<<<"1", "F">>>> /\ radix = 16 /\ sign = "None")

\* "  -042 ".
C20_Witness ==
    /\ pc = "returned" /\ op = "getStringIntegerLiteralDigitsAndSign"
    /\ input = <<"SP", "SP", "-", "0", "4", "2", "SP">>
    /\ ret = <<<<"4", "2">>>> /\ radix = 10 /\ sign = "Minus"

(***************************************************************************)
(* toString and the parser together                                        *)
(***************************************************************************)
\* C19: for every canonical x, parsing the decimal string toString(x, 10)
\* with the string-integer-literal parser succeeds, and the two's-complement
\* bytes it produces (at a width of 4 bits per character plus one, rounded up
\* to whole digits, negated for the sign Minus) loaded with initWithBytes
\* give x again; the width is never too small for the parsed magnitude and a
\* sign bit.
C19_DecimalRoundTrip ==
    (pc = "returned" /\ op = "parsedBigIntFrom") =>
        \A dec \in DecimalStrings :
            input = dec.str =>
                /\ ret # <<>>
                /\ LET n == numDigitsForSizeInBytes(Len(ret[1]))
                   IN  \A g \in PriorVals :
                           LET r == initWithBytes(Fill(g, n), n, ret[1])
                           IN  /\ r.status = "RETURNED"
                               /\ SubSeq(r.digits, 1, r.numDigits) = dec.x
                /\ LET d == getDigitsWith(input, 0, <<>>)
                       parts == numBitsForBigintDigits(d.ret[1], d.radix)
                                    \div BigIntDigitSizeInBits
                       wide == fromString(parts + 1, d.ret[1], d.radix)
                   IN  /\ d.radix = 10
                       /\ Len(ret[1]) = parts * BigIntDigitSizeInBytes
                       /\ Last(wide) = 0
                       /\ wide[parts] < DigitBase \div 2

\* The most negative two-digit value, "-2147483648", parsed to bytes.
C19_Witness ==
    /\ pc = "returned" /\ op = "parsedBigIntFrom"
    /\ input = toString(<<0, DigitBase \div 2>>, 10)
    /\ Len(input) = 11
    /\ ret # <<>>

(***************************************************************************)
(* The literal parser: what it rejects                                     *)
(***************************************************************************)
\* C21: for every input, if a non-decimal prefix character (b/B, o/O or
\* x/X) stands after the leading '0' and the digit run right after that
\* prefix is empty, parsing fails; no later prefix character is taken in its
\* place ("0bo7" and "0bx1F" are rejected).
C21_EmptyRunAfterPrefixFails ==
    (pc = "returned" /\ op = "getStringIntegerLiteralDigitsAndSign") =>
        LET t == Trimmed(input)
        IN  \A pre \in Prefixes :
                (/\ Len(t) >= 2 /\ t[1] = "0" /\ t[2] \in pre.chars
                 /\ (Len(t) = 2 \/ t[3] \notin pre.digits)) =>
                    ret = <<>>

\* C27 (as the code has it): for all operands and every destination,
\* subtract takes the swapped path (rhs - lhs, then the negating
\* post-process) exactly when lhs has more digits than rhs, and otherwise
\* computes lhs - rhs directly with the no-op post-process.
C27_SwapsWhenLhsLonger ==
    (pc = "returned" /\ op = "subtract") =>
        /\ opPost \in {"noopAdditiveOpPostProcess",
                       "negateAdditiveOpPostProcess"}
        /\ (opPost = "negateAdditiveOpPostProcess") <=> (Len(lhs) > Len(rhs))

\* C27 as stated: the swapped path is taken exactly when rhs has more
\* digits than lhs.
C27_SwapsWhenRhsLonger ==
    (pc = "returned" /\ op = "subtract") =>
        ((opPost = "negateAdditiveOpPostProcess") <=> (Len(rhs) > Len(lhs)))

C27_Witness ==
    /\ pc = "returned" /\ op = "subtract" /\ status = "RETURNED"
    /\ Len(lhs) > Len(rhs) /\ Len(rhs) > 0
    /\ opPost = "negateAdditiveOpPostProcess"

\* The operation of the last call, applied again to a destination of the
\* same capacity that held other digits before the call.
Rerun(before) ==
    CASE op = "initWithBytes" -> initWithBytes(before, cap, data)
      [] op = "unaryMinus" -> unaryMinus(before, cap, lhs)
      [] op = "unaryNot" -> unaryNot(before, cap, lhs)
      [] op = "add" -> add(before, cap, lhs, rhs)
      [] op = "subtract" -> subtract(before, cap, lhs, rhs)

SameOutcome(res) ==
    /\ res.status = status
    /\ res.numDigits = numDigits
    /\ SubSeq(res.digits, 1, res.numDigits) = ResultRef

\* C29: for each mutating operation, all operands and every capacity, two
\* runs that differ only in what the destination held before the call return
\* the same status, the same digit count and the same first numDigits
\* digits.
C29_PriorContentsDoNotMatter ==
    (pc = "returned" /\ op \in {"initWithBytes", "unaryMinus", "unaryNot",
                                "add", "subtract"}) =>
        \A g \in PriorVals : SameOutcome(Rerun(Fill(g, cap)))

\* ES5.1 7.2 WhiteSpace and 7.3 LineTerminator, as code units.
JSWhiteSpaceCodes ==
    {9, 11, 12, 32, 160, 65279, 5760} \cup (8192..8202)
        \cup {8239, 8287, 12288}
LineTerminatorCodes == {10, 13, 8232, 8233}

\* s without one trailing NUL, then without the white space of ES5.1 at
\* its ends.
RECURSIVE StripFront(_)
StripFront(s) ==
    IF s # <<>> /\ CodeOf(Head(s)) \in JSWhiteSpaceCodes
    THEN StripFront(Tail(s)) ELSE s

RECURSIVE StripBack(_)
StripBack(s) ==
    IF s # <<>> /\ CodeOf(s[Len(s)]) \in JSWhiteSpaceCodes
    THEN StripBack(SubSeq(s, 1, Len(s) - 1)) ELSE s

StripNul(s) ==
    IF s # <<>> /\ CodeOf(s[Len(s)]) = 0 THEN SubSeq(s, 1, Len(s) - 1)
    ELSE s

JSTrimmed(s) == StripBack(StripFront(StripNul(s)))

\* What goal() makes of the characters of t, none of them trimmed.
Untrimmed(t) ==
    getDigitsWith_goal(goal(BigIntLiteralParsingToolBox(t, 0, <<>>)))

\* C30: for every input, the parse is the parse of what is left of the
\* input once one trailing NUL and then the characters U+0009, U+000B,
\* U+000C, U+0020, U+00A0, U+FEFF, U+1680, U+2000..U+200A, U+202F, U+205F
\* and U+3000 at both ends are removed, no other character being removed;
\* and an input whose remainder starts or ends with a line terminator
\* (U+000A, U+000D, U+2028, U+2029) fails.
C30_TrimsExactlyWhiteSpace ==
    (pc = "returned" /\ op = "getStringIntegerLiteralDigitsAndSign") =>
        LET t == JSTrimmed(input)
        IN  /\ Untrimmed(t) = [ret |-> ret, radix |-> radix, sign |-> sign,
                               outError |-> <<>>]
            /\ \A i \in {1, Len(t)} :
                   (t # <<>> /\ CodeOf(t[i]) \in LineTerminatorCodes) =>
                       ret = <<>>

C30_Witness ==
    /\ pc = "returned" /\ op = "getStringIntegerLiteralDigitsAndSign"
    /\ input = <<"U+200A", "1", "U+200A", "NUL">>
    /\ ret = << <<"1">> >> /\ radix = 10 /\ sign = "None"

\* The parse of s, as far as the caller of a parse without error sink sees it.
ParseOf(s) == getStringIntegerLiteralDigitsAndSign(s, 0, <<>>)

SameParse(a) ==
    /\ a.ret = ret
    /\ (ret # <<>>) => (a.radix = radix /\ a.sign = sign)

\* C24: an input that is empty or holds only white space parses as radix
\* 10, digits "0", sign None; and for every input, one more white space
\* character at either end gives the same parse result.
C24_WhiteSpaceDoesNotMatter ==
    (pc = "returned" /\ op = "getStringIntegerLiteralDigitsAndSign") =>
        /\ (\A i \in 1..Len(input) : CodeOf(input[i]) \in JSWhiteSpaceCodes)
               => (ret = << <<"0">> >> /\ radix = 10 /\ sign = "None")
        /\ \A w \in {"SP", "U+2003"} :
               /\ SameParse(ParseOf(<<w>> \o input))
               /\ SameParse(ParseOf(input \o <<w>>))

(***************************************************************************)
(* One run of the literal parser, statement by statement: the constructor  *)
(* and its two trimming loops, then goal() with the three non-decimal      *)
(* literals in turn, the loop of buildBigIntWithDigits, the restore, the   *)
(* sign, the loop and the run of decimalDigits, and checkEnd.  The run     *)
(* ends in Done (goal() returned true) or Fail (it returned false through  *)
(* fail()).                                                                *)
(***************************************************************************)
MaxRun == 4
RunChars == {"0", "1", "b", "x", "-", "NUL"}
RunInputs == SeqsUpTo(RunChars, MaxRun) \cup ExampleInputs

\* What a run of the parser leaves alone.
runRest == <<status, dst, numDigits, cap, prior, lhs, rhs, data, out,
             result, scalar, opPost, double, str>>

ParserInit == Idle

\* getDigitsWith is called: the parser object is about to be constructed
\* on src, with the caller's error sink.
RunGetDigitsWith ==
    /\ pc = "idle"
    /\ \E src \in RunInputs, err \in ErrorSinks :
          /\ input' = src
          /\ outError' = err
    /\ pc' = "construct" /\ op' = "getDigitsWith"
    /\ UNCHANGED <<asserted, restores, ret, radix, sign, parser, frame>>
    /\ UNCHANGED runRest

\* The next statement, with the parser and the locals as they are now.
Step(next, p, f) ==
    /\ pc' = next /\ parser' = p /\ frame' = f
    /\ UNCHANGED <<asserted, restores, ret, radix, sign, outError>>
    /\ UNCHANGED <<op, input>>
    /\ UNCHANGED runRest

\* goal() returned g.ret: getDigitsWith hands res to the caller.
Finish(g, res) ==
    /\ pc' = (IF g.ret THEN "Done" ELSE "Fail")
    /\ parser' = g.p
    /\ ret' = res.ret /\ radix' = res.radix /\ sign' = res.sign
    /\ outError' = res.outError
    /\ UNCHANGED <<asserted, restores, frame>>
    /\ UNCHANGED <<op, input>>
    /\ UNCHANGED runRest

Returns(g) == Finish(g, getDigitsWith_goal(g))

\* The constructors, lines 209-228 and 444-446.
RunConstructor ==
    /\ pc = "construct"
    /\ Step("skipLeadingWhiteSpace",
            dropTrailingNul(BigIntLiteralParsingToolBox(input, radix,
                                                        outError)),
            frame)

\* The loop of lines 450-452, one test of its condition.
RunSkipLeadingWhiteSpace ==
    /\ pc = "skipLeadingWhiteSpace"
    /\ IF parser.it < parser.end /\ isWhiteSpaceChar(parser.str[parser.it])
       THEN Step("skipLeadingWhiteSpace",
                 [parser EXCEPT !.it = parser.it + 1], frame)
       ELSE Step("skipTrailingWhiteSpace", parser, frame)

\* The loop of lines 454-456, one test of its condition.
RunSkipTrailingWhiteSpace ==
    /\ pc = "skipTrailingWhiteSpace"
    /\ IF parser.it < parser.end
            /\ isWhiteSpaceChar(parser.str[parser.end - 1])
       THEN Step("skipTrailingWhiteSpace",
                 [parser EXCEPT !.end = parser.end - 1], frame)
       ELSE Step("goal", parser, frame)

\* goal(), lines 463-476, given the character ch it peeked.
RunGoal_ch(ch) ==
    IF ch = <<>>
    THEN Returns([p |-> [parser EXCEPT !.radix = 10,
                                       !.bigintDigits = <<"0">>],
                  ret |-> TRUE])
    ELSE IF ch[1] = "0"
    THEN Step("binaryIntegerLiteral", eat(parser),
              [frame EXCEPT !.ch = ch, !.atZero = parser.it])
    ELSE Step("sign", parser, [frame EXCEPT !.ch = ch])

RunGoal ==
    /\ pc = "goal"
    /\ RunGoal_ch(peek(parser, 0))

\* The head of a non-decimal literal, given the result la of the lookahead
\* for its prefix: with the prefix the radix is set and the digits are
\* collected, without it the literal returns false and the next operand of
\* binary || octal || hex is tried.
RunPrefix(la, rdx, digits, orElse) ==
    IF la.ret # <<>>
    THEN Step("buildBigIntWithDigits", setRadix(la.p, rdx),
              [frame EXCEPT !.digits = digits, !.orElse = orElse,
                            !.err = "trailing data in non-decimal literal"])
    ELSE Step(orElse, la.p, frame)

RunBinaryIntegerLiteral ==
    /\ pc = "binaryIntegerLiteral"
    /\ RunPrefix(lookaheadAndEatIfAnyOf(parser, {"B", "b"}), 2,
                 BIGINT_BINARY_DIGITS, "octalIntegerLiteral")

RunOctalIntegerLiteral ==
    /\ pc = "octalIntegerLiteral"
    /\ RunPrefix(lookaheadAndEatIfAnyOf(parser, {"O", "o"}), 8,
                 BIGINT_OCTAL_DIGITS, "hexIntegerLiteral")

RunHexIntegerLiteral ==
    /\ pc = "hexIntegerLiteral"
    /\ RunPrefix(lookaheadAndEatIfAnyOf(parser, {"X", "x"}), 16,
                 BIGINT_HEX_DIGITS, "restoreParserState")

\* The loop of buildBigIntWithDigits, given the result la of its lookahead:
\* a digit is pushed; without one the literal returns size() > 0, true to
\* checkEnd, false to what follows the literal in goal().
RunBuildBigIntWithDigits_la(la) ==
    IF la.ret # <<>>
    THEN Step("buildBigIntWithDigits", pushDigit(la.p, la.ret[1]), frame)
    ELSE IF hasDigits(la.p).ret THEN Step("checkEnd", la.p, frame)
    ELSE IF frame.orElse = "fail"
    THEN Returns(fail(la.p, "invalid bigint literal"))
    ELSE Step(frame.orElse, la.p, frame)

RunBuildBigIntWithDigits ==
    /\ pc = "buildBigIntWithDigits"
    /\ RunBuildBigIntWithDigits_la(
           lookaheadAndEatIfAnyOf(parser, frame.digits))

\* restoreParserState(atZero), with its two assertions.
RunRestoreParserState ==
    /\ pc = "restoreParserState"
    /\ pc' = "sign"
    /\ parser' = restoreParserState(parser, frame.atZero)
    /\ asserted' = (1 <= frame.atZero /\ frame.atZero <= parser.end)
    /\ restores' = restores + 1
    /\ UNCHANGED <<frame, ret, radix, sign, outError>>
    /\ UNCHANGED <<op, input>>
    /\ UNCHANGED runRest

RunSign ==
    /\ pc = "sign"
    /\ Step("decimalDigits",
            goal_sign(lookaheadAndEatIfAnyOf(parser, {"+", "-"}), frame.ch),
            frame)

\* The loop of decimalDigits, lines 295-303, one test of its condition.
RunDecimalDigits ==
    /\ pc = "decimalDigits"
    /\ IF peek(parser, 0) = <<"0">> /\ peek(parser, 1) # <<>>
       THEN Step("decimalDigits", eat(parser), frame)
       ELSE Step("nextIsAnyOf", parser, frame)

\* decimalDigits, lines 305-311, and line 497 of goal().
RunNextIsAnyOf ==
    /\ pc = "nextIsAnyOf"
    /\ IF nextIsAnyOf(parser, BIGINT_DEC_DIGITS) # <<>>
       THEN Step("buildBigIntWithDigits", setRadix(parser, 10),
                 [frame EXCEPT !.digits = BIGINT_DEC_DIGITS,
                               !.orElse = "fail",
                               !.err = "trailing data in decimal literal"])
       ELSE Returns(fail(parser, "invalid bigint literal"))

RunCheckEnd ==
    /\ pc = "checkEnd"
    /\ Returns(checkEnd(parser, frame.err))

ParserNext ==
    \/ RunGetDigitsWith
    \/ RunConstructor
    \/ RunSkipLeadingWhiteSpace
    \/ RunSkipTrailingWhiteSpace
    \/ RunGoal
    \/ RunBinaryIntegerLiteral
    \/ RunOctalIntegerLiteral
    \/ RunHexIntegerLiteral
    \/ RunBuildBigIntWithDigits
    \/ RunRestoreParserState
    \/ RunSign
    \/ RunDecimalDigits
    \/ RunNextIsAnyOf
    \/ RunCheckEnd

\* The parser is straight-line code and loops over a finite input: the
\* statement it stands at is executed.
ParserSpec == ParserInit /\ [][ParserNext]_vars /\ WF_vars(ParserNext)

ParserOps == {"getStringIntegerLiteralDigitsAndSign", "parsedBigIntFrom"}
Diagnostics ==
    {"trailing data in non-decimal literal",
     "trailing data in decimal literal", "invalid bigint literal"}

\* C25: for every input and either way of passing the error sink, a failed
\* parse returns no digit string and no ParsedBigInt and leaves exactly one
\* of the three diagnostics in a supplied sink, and a successful parse
\* leaves the sink as the caller passed it.
C25_FailureHasOneDiagnostic ==
    (pc = "returned" /\ op \in ParserOps) =>
        /\ (ret = <<>>) => (outError = <<>> \/ outError[1] \in Diagnostics)
        /\ (ret # <<>>) => outError \in ErrorSinks
        /\ (outError # <<>> /\ outError[1] \in Diagnostics) => ret = <<>>
        /\ Len(ret) <= 1 /\ Len(outError) <= 1

C25_Witness ==
    /\ pc = "returned" /\ op = "parsedBigIntFrom"
    /\ ret = <<>> /\ outError = <<"trailing data in decimal literal">>

\* The characters a literal of the radix may have as digits: 0-9, then a-z
\* or A-Z.
LiteralDigitsOf(rdx) ==
    DigitCharsOf(rdx)
        \cup (IF rdx > 10 THEN Range(SubSeq(UpperChars, 1, rdx - 10)) ELSE {})

PrefixChars == {"b", "B", "o", "O", "x", "X"}

\* C23: on every successful parse the radix is 2, 8, 10 or 16 and the digit
\* string is non-empty and holds only digits of that radix; the sign is
\* Plus (Minus) only with radix 10 and a trimmed input that starts with '+'
\* ('-'), and None with radix 2, 8 and 16; and every input that has a sign
\* in front of a 0b/0o/0x prefix fails.
C23_RadixDigitsAndSign ==
    (pc = "returned" /\ op = "getStringIntegerLiteralDigitsAndSign") =>
        LET t == JSTrimmed(input)
        IN  /\ (ret # <<>>) =>
                   /\ radix \in {2, 8, 10, 16}
                   /\ ret[1] # <<>>
                   /\ \A i \in 1..Len(ret[1]) :
                          ret[1][i] \in LiteralDigitsOf(radix)
                   /\ sign \in {"None", "Plus", "Minus"}
                   /\ (sign = "Plus") =>
                          (radix = 10 /\ t # <<>> /\ t[1] = "+")
                   /\ (sign = "Minus") =>
                          (radix = 10 /\ t # <<>> /\ t[1] = "-")
                   /\ (radix # 10) => sign = "None"
            /\ (/\ Len(t) >= 3
                /\ t[1] \in {"+", "-"}
                /\ t[2] = "0"
                /\ t[3] \in PrefixChars) => ret = <<>>

\* "  -042 ": the sign of a decimal literal between white space.
C23_Witness ==
    /\ pc = "returned" /\ op = "getStringIntegerLiteralDigitsAndSign"
    /\ input = <<"SP", "SP", "-", "0", "4", "2", "SP">>
    /\ ret = << <<"4", "2">> >> /\ radix = 10 /\ sign = "Minus"

(***************************************************************************)
(* The run of the parser                                                   *)
(***************************************************************************)
Terminated == pc \in {"Done", "Fail"}

\* Where the literal starts: behind the white space in front of it.
FirstOfLiteral == Len(input) - Len(StripFront(input)) + 1

\* What holds around the restore: it is reached with the initial '0' eaten
\* and no digit collected, it happens once, and the decimal path starts
\* behind it on that '0', within the input, with no digit collected.
RestoreInv ==
    /\ restores <= 1
    /\ asserted
    /\ (pc = "restoreParserState") =>
           /\ restores = 0
           /\ frame.ch = <<"0">>
           /\ frame.atZero = FirstOfLiteral
           /\ parser.it > frame.atZero
           /\ parser.bigintDigits = <<>>
    /\ (pc = "sign" /\ restores = 1) =>
           /\ parser.it = FirstOfLiteral
           /\ 1 <= parser.it /\ parser.it < parser.end
           /\ parser.end <= Len(input) + 1
           /\ parser.str[parser.it] = "0"
           /\ parser.bigintDigits = <<>>

\* The ends of a run: Done with digits, Fail with none and the diagnostic
\* in a supplied sink.
EndInv ==
    /\ (pc = "Done") => ret # <<>>
    /\ (pc = "Fail") =>
           /\ ret = <<>>
           /\ outError = <<>> \/ outError[1] \in Diagnostics

\* A step moves the cursor forward or leaves it, but for the restore.
CursorStep ==
    \/ parser'.it >= parser.it
    \/ /\ pc = "restoreParserState" /\ restores = 0 /\ restores' = 1
       /\ parser'.it = frame.atZero

\* C28: every run of the literal parser ends in Done or Fail, Fail with the
\* diagnostic; in every step the cursor advances or stays, except in at
\* most one restore, which follows a failed non-decimal attempt and puts
\* the cursor back on the initial '0', within the bounds of the input; and
\* the decimal path after the restore starts with no digit collected.
C28_RunTerminates ==
    /\ [](RestoreInv /\ EndInv)
    /\ [][CursorStep]_vars
    /\ <>Terminated

\* "01": the non-decimal attempt fails, the restore puts the cursor back,
\* and the decimal path ends in Done.
C28_Witness ==
    /\ pc = "Done" /\ restores = 1
    /\ input = <<"0", "1">> /\ ret = << <<"1">> >> /\ radix = 10

\* C22: whenever the parser succeeds, the cursor is at the end of the
\* trimmed input, every character having been consumed by the prefix, the
\* sign or a digit run, also when a NUL and more characters follow the
\* digits; and a non-decimal digit run with a character behind it fails
\* with "trailing data in non-decimal literal", no restore having happened.
C22_AllInputConsumed ==
    /\ [](pc = "Done" => parser.it = parser.end)
    /\ [][(/\ pc = "checkEnd"
           /\ frame.err = "trailing data in non-decimal literal"
           /\ parser.it < parser.end) =>
              (/\ pc' = "Fail"
               /\ restores' = 0
               /\ outError' \in
                      {<<>>, <<"trailing data in non-decimal literal">>})]_vars

(***************************************************************************)
(* fromDouble                                                              *)
(***************************************************************************)
\* Bit j of the number the digits of a are, bit 0 the least significant.
Bit(a, j) ==
    (At(a, j \div BigIntDigitSizeInBits + 1)
        \div (2 ^ (j % BigIntDigitSizeInBits))) % 2

\* The digits of |value(ref)|, one digit more than ref has.
Magnitude(ref) ==
    IF isNegative(ref)
    THEN tcNegate(ref \o <<DigitBase - 1>>, Len(ref) + 1)
    ELSE ref \o <<0>>

\* The digits are those of trunc(d), for a double of unbiased exponent
\* e >= 0: the sign of d, and as magnitude mag the 53 bits of the mantissa
\* man with the hidden bit at bit e, the bits below bit 0 cut off.
IsShifted(mag, man, e) ==
    /\ e < BigIntDigitSizeInBits * Len(mag)
    /\ \A j \in 0..(BigIntDigitSizeInBits * Len(mag) - 1) :
           Bit(mag, j) =
               IF j <= e /\ j >= e - FractionBits
               THEN Bit(man, j - (e - FractionBits))
               ELSE 0

IsTruncOf(ref, d, e) ==
    /\ IsCanonical(ref)
    /\ isNegative(ref) <=> (d.sign = 1)
    /\ IsShifted(Magnitude(ref), Mantissa(d), e)

\* C26: for every finite double, fromDoubleResultSize is 0 when the
\* unbiased exponent e is negative and the digit count of e + 2 bits
\* otherwise; fromDouble into a destination of that size (or more) returns
\* RETURNED, never DEST_TOO_SMALL, with the canonical digits of trunc(src),
\* of which there are at most fromDoubleResultSize(src), for either sign.
C26_FromDoubleSizeSuffices ==
    (pc = "returned" /\ op = "fromDouble") =>
        /\ (double.exp < ExponentBias) =>
               (fromDoubleResultSize(double) = 0 /\ ResultRef = <<>>)
        /\ (double.exp >= ExponentBias) =>
               /\ fromDoubleResultSize(double) * BigIntDigitSizeInBits
                      >= double.exp - ExponentBias + 2
               /\ (fromDoubleResultSize(double) - 1) * BigIntDigitSizeInBits
                      < double.exp - ExponentBias + 2
               /\ IsTruncOf(ResultRef, double, double.exp - ExponentBias)
        /\ cap >= fromDoubleResultSize(double)
        /\ asserted
        /\ status = "RETURNED"
        /\ numDigits <= fromDoubleResultSize(double)

\* 65535.99..., into the two digits of 17 bits: both are used.
C26_Witness ==
    /\ pc = "returned" /\ op = "fromDouble" /\ status = "RETURNED"
    /\ double.sign = 0 /\ double.exp = ExponentBias + 15
    /\ double.frac[1] = DigitBase - 1
    /\ cap = 2 /\ numDigits = 2 /\ dst = <<DigitBase - 1, 0>>

=============================================================================
